---- MODULE Spec2Model ----
(***************************************************************************)
(* SmartRun recommendation engine (internal/engine): constraint filter,    *)
(* window search and the coupled, weather-aware recommendation.            *)
(*                                                                         *)
(* Time is counted in minutes from a Monday 00:00 (UTC); a time.Time is an  *)
(* integer.  A float64 amount x is the integer x * FixedPoint, so that     *)
(* the divisions of the code (by requiredSlots, by len(window), by 100)    *)
(* are exact for the slot counts the model reaches.                        *)
(***************************************************************************)
EXTENDS Integers, Sequences, FiniteSets, TLC

VARIABLES
    slots,        \* []PriceSlot handed to BestWindows / filterByConstraints
    runMinutes,   \* BestWindows argument
    constraints,  \* Constraints argument
    opts,         \* Options argument
    topN,         \* BestWindows argument
    pc,           \* which engine operation has been applied
    recs,         \* BestWindows: returned []Recommendation (<<>> is nil)
    err,          \* BestWindows: returned error ("" is nil)
    feasible,     \* filterByConstraints(slots, constraints)
    refiltered,   \* filterByConstraints(feasible, constraints)
    appliance,    \* GenerateSmartRecommendations: the appliance to plan
    coupledAppliance,  \* its paired appliance (Nil is a nil pointer)
    pricesByDay,  \* date -> []PriceSlot; a date is the number of its day
    weatherByDay, \* date -> WeatherForecast
    now,          \* what time.Now() returns during the call
    smartRec,     \* returned *SmartRecommendation (Nil is nil)
    smartErr,     \* returned error ("" is nil)
    household,    \* the Household handed to ApplyPracticalConstraints
    lastRunDate,  \* ShouldShowRecommendation argument
    currentDate,  \* ShouldShowRecommendation argument
    show,         \* ShouldShowRecommendation: returned bool
    caller,       \* the batch planner running: plan, /recommendations, ...
    appliances,   \* the appliances of the store, in the order GetAppliances returns
    cursor,       \* how many of them the planner's loop has been through
    results,      \* the planner's results so far
    status,       \* how the planner ended ("" while it runs)
    again,        \* what a second call with the same arguments returned
    instant,      \* matchesTimeWindow argument t
    timeWindow,   \* matchesTimeWindow argument window
    matched       \* matchesTimeWindow: returned bool

engineVars == <<slots, runMinutes, topN, recs, err, feasible, refiltered>>
smartVars == <<appliance, coupledAppliance, pricesByDay, weatherByDay, now,
               smartRec, smartErr>>
practicalVars == <<household, lastRunDate, currentDate, show>>
batchVars == <<caller, appliances, cursor, results, status>>
windowVars == <<instant, timeWindow, matched>>
vars == <<slots, runMinutes, constraints, opts, topN, pc, recs, err,
          feasible, refiltered, appliance, coupledAppliance, pricesByDay,
          weatherByDay, now, smartRec, smartErr, household, lastRunDate,
          currentDate, show, caller, appliances, cursor, results, status, again,
          instant, timeWindow, matched>>

----------------------------------------------------------------------------
(* Bounds of the model *)

MaxSlots == 4        \* longest slot list handed to BestWindows
MaxFilterSlots == 2  \* longest slot list in the runs with the full constraint product
MaxPrice == 2        \* prices are 1 .. MaxPrice pence per kWh
MaxDaySlots == 2     \* slots of one day's price list in the smart recommendation
MaxAppliances == 2   \* appliances of the store besides the dryer

----------------------------------------------------------------------------
(* Representation *)

FixedPoint == 3600             \* float64 x is modelled as the integer x * FixedPoint
SlotMinutes == 30              \* a PriceSlot is a 30-minute period
InsertionSortMax == 12         \* sort.Slice sorts up to 12 elements by insertion

Nil == <<>>                    \* a nil pointer; <<v>> is a pointer to v
ErrNil == ""
ErrInvalidInput == "invalid input parameters"
ErrNoFeasibleSlots == "no feasible time slots found matching constraints"

HM(h, m) == <<h, m>>           \* the string "hh:mm" of a TimeWindow
At(day, h, m) == (day * 24 + h) * 60 + m

DayOf(t) == t \div (24 * 60)
Weekday(t) == (DayOf(t) + 1) % 7      \* time.Weekday: Sunday = 0, Monday = 1
\* time.Date(t.Year(), t.Month(), t.Day(), hour, min, 0, 0, t.Location())
DateOn(t, hour, min) == At(DayOf(t), hour, min)

Range(s) == {s[i] : i \in 1..Len(s)}
Ceil(a, b) == (a + b - 1) \div b      \* math.Ceil(a / b) for b > 0

----------------------------------------------------------------------------
(* engine.go *)

\* parseTimeOfDay: time.Parse("15:04", s); the result is <<ok, hour, minute>>
parseTimeOfDay(s) ==
    IF Len(s) = 2 /\ s[1] \in 0..23 /\ s[2] \in 0..59
    THEN [ok |-> TRUE, Hour |-> s[1], Minute |-> s[2]]
    ELSE [ok |-> FALSE, Hour |-> 0, Minute |-> 0]

matchesTimeWindowEndOnTheSameDay(t, window) ==
    LET weekday == IF Weekday(t) = 0 THEN 7 ELSE Weekday(t)
        dayMatches == \E i \in 1..Len(window.DaysOfWeek) : window.DaysOfWeek[i] = weekday
        startTime == parseTimeOfDay(window.Start)
        endTime == parseTimeOfDay(window.End)
        todayStart == DateOn(t, startTime.Hour, startTime.Minute)
        todayEnd == DateOn(t, endTime.Hour, endTime.Minute)
    IN  IF Len(window.DaysOfWeek) > 0 /\ ~dayMatches THEN FALSE
        ELSE IF ~startTime.ok THEN FALSE
        ELSE IF ~endTime.ok THEN FALSE
        ELSE (t = todayStart \/ t > todayStart) /\ t < todayEnd

matchesTimeWindow(t, window) ==
    LET weekday == IF Weekday(t) = 0 THEN 7 ELSE Weekday(t)
        dayMatches == \E i \in 1..Len(window.DaysOfWeek) : window.DaysOfWeek[i] = weekday
        startTime == parseTimeOfDay(window.Start)
        endTime == parseTimeOfDay(window.End)
        todayStart == DateOn(t, startTime.Hour, startTime.Minute)
        todayEnd0 == DateOn(t, endTime.Hour, endTime.Minute)
        todayEnd == IF todayEnd0 < todayStart THEN todayEnd0 + 24 * 60 ELSE todayEnd0
    IN  IF Len(window.DaysOfWeek) > 0 /\ ~dayMatches THEN FALSE
        ELSE IF ~startTime.ok THEN FALSE
        ELSE IF ~endTime.ok THEN FALSE
        ELSE (t = todayStart \/ t > todayStart) /\ t < todayEnd

isInTimeWindows(t, windows) ==
    \E i \in 1..Len(windows) : matchesTimeWindow(t, windows[i])

keepsSlotCapExclusive(slot, c) ==
    IF c.PriceCapPence # Nil /\ slot.PencePerKWh >= c.PriceCapPence[1] THEN FALSE
    ELSE IF Len(c.Allowed) > 0 /\ ~isInTimeWindows(slot.Start, c.Allowed) THEN FALSE
    ELSE IF Len(c.Blocked) > 0 /\ isInTimeWindows(slot.Start, c.Blocked) THEN FALSE
    ELSE IF c.NoiseLevel >= 3 /\ Len(c.QuietHours) > 0
            /\ isInTimeWindows(slot.Start, c.QuietHours) THEN FALSE
    ELSE IF c.StartBy # Nil /\ slot.Start > c.StartBy[1] THEN FALSE
    ELSE IF c.FinishBy # Nil /\ slot.End > c.FinishBy[1] THEN FALSE
    ELSE TRUE

keepsSlotNoisierOnly(slot, c) ==
    IF c.PriceCapPence # Nil /\ slot.PencePerKWh > c.PriceCapPence[1] THEN FALSE
    ELSE IF Len(c.Allowed) > 0 /\ ~isInTimeWindows(slot.Start, c.Allowed) THEN FALSE
    ELSE IF Len(c.Blocked) > 0 /\ isInTimeWindows(slot.Start, c.Blocked) THEN FALSE
    ELSE IF c.NoiseLevel > 3 /\ Len(c.QuietHours) > 0
            /\ isInTimeWindows(slot.Start, c.QuietHours) THEN FALSE
    ELSE IF c.StartBy # Nil /\ slot.Start > c.StartBy[1] THEN FALSE
    ELSE IF c.FinishBy # Nil /\ slot.End > c.FinishBy[1] THEN FALSE
    ELSE TRUE

\* the body of the loop of filterByConstraints: TRUE iff the slot is appended
keepsSlot(slot, c) ==
    IF c.PriceCapPence # Nil /\ slot.PencePerKWh > c.PriceCapPence[1] THEN FALSE
    ELSE IF Len(c.Allowed) > 0 /\ ~isInTimeWindows(slot.Start, c.Allowed) THEN FALSE
    ELSE IF Len(c.Blocked) > 0 /\ isInTimeWindows(slot.Start, c.Blocked) THEN FALSE
    ELSE IF c.NoiseLevel >= 3 /\ Len(c.QuietHours) > 0
            /\ isInTimeWindows(slot.Start, c.QuietHours) THEN FALSE
    ELSE IF c.StartBy # Nil /\ slot.Start > c.StartBy[1] THEN FALSE
    ELSE IF c.FinishBy # Nil /\ slot.End > c.FinishBy[1] THEN FALSE
    ELSE TRUE

\* the elements of s at the indices I, in ascending order of index
pick(s, I) ==
    [k \in 1..Cardinality(I) |-> s[CHOOSE i \in I : Cardinality({j \in I : j <= i}) = k]]

filterByConstraintsFromSecond(ss, c) ==
    pick(ss, {i \in 2..Len(ss) : keepsSlot(ss[i], c)})

filterByConstraints(ss, c) ==
    pick(ss, {i \in 1..Len(ss) : keepsSlot(ss[i], c)})

isContiguousFromThird(ss) ==
    \A i \in 3..Len(ss) : ss[i].Start = ss[i-1].End

isContiguous(ss) ==
    \A i \in 2..Len(ss) : ss[i].Start = ss[i-1].End

RECURSIVE SortInts(_)
SortInts(S) ==
    IF S = {} THEN <<>>
    ELSE LET m == CHOOSE x \in S : \A y \in S : x <= y
         IN  <<m>> \o SortInts(S \ {m})

\* sort.Float64s(allPrices): the prices of all slots in ascending order
sortedPrices(ss) ==
    LET price(i) == ss[i].PencePerKWh * FixedPoint
        below(p) == Cardinality({i \in 1..Len(ss) : price(i) < p})
        upto(p) == Cardinality({i \in 1..Len(ss) : price(i) <= p})
    IN  [k \in 1..Len(ss) |->
            price(CHOOSE i \in 1..Len(ss) : below(price(i)) < k /\ k <= upto(price(i)))]

generateReasonLastWhenNoneFound(window, totalPence, allSlots) ==
    LET allPrices == sortedPrices(allSlots)
        n == Len(allPrices)
        avgPence == totalPence \div Len(window)
        hits == {i \in 1..n : avgPence <= allPrices[i]}
        idx == IF hits = {} THEN n ELSE (CHOOSE i \in hits : \A j \in hits : i <= j) - 1
    IN  IF idx * 10 < 2 * n THEN [band |-> "Excellent price", idx |-> idx, of |-> n]
        ELSE IF idx * 10 < 4 * n THEN [band |-> "Good price", idx |-> idx, of |-> n]
        ELSE IF idx * 10 < 6 * n THEN [band |-> "Moderate pricing", idx |-> idx, of |-> n]
        ELSE [band |-> "Higher price", idx |-> idx, of |-> n]

\* generateReason: the band and the percentile index / count the text is built from
generateReason(window, totalPence, allSlots) ==
    LET allPrices == sortedPrices(allSlots)
        n == Len(allPrices)
        avgPence == totalPence \div Len(window)
        hits == {i \in 1..n : avgPence <= allPrices[i]}
        \* percentile = i / len(allPrices) for the first hit (0-based i), else 0.0
        idx == IF hits = {} THEN 0 ELSE (CHOOSE i \in hits : \A j \in hits : i <= j) - 1
    IN  IF idx * 10 < 2 * n THEN [band |-> "Excellent price", idx |-> idx, of |-> n]
        ELSE IF idx * 10 < 4 * n THEN [band |-> "Good price", idx |-> idx, of |-> n]
        ELSE IF idx * 10 < 6 * n THEN [band |-> "Moderate pricing", idx |-> idx, of |-> n]
        ELSE [band |-> "Higher price", idx |-> idx, of |-> n]

requiredSlotsOf(rm) == Ceil(rm, SlotMinutes)

RECURSIVE sumPence(_, _)
sumPence(window, share) ==
    IF window = <<>> THEN 0
    ELSE Head(window).PencePerKWh * share + sumPence(Tail(window), share)

makeRecUndividedEnergy(window, o, requiredSlots, allSlots) ==
    LET totalPence == sumPence(window, o.EstKWh * FixedPoint)
    IN  [Start |-> window[1].Start,
         End |-> window[Len(window)].End,
         CostGBP |-> totalPence \div 100,
         Score |-> totalPence,
         Reason |-> generateReason(window, totalPence, allSlots)]

\* the body of the candidate loop: the Recommendation of one window
makeRec(window, o, requiredSlots, allSlots) ==
    LET totalPence == sumPence(window, (o.EstKWh * FixedPoint) \div requiredSlots)
    IN  [Start |-> window[1].Start,
         End |-> window[Len(window)].End,
         CostGBP |-> totalPence \div 100,
         Score |-> totalPence,
         Reason |-> generateReason(window, totalPence, allSlots)]

\* the candidate loop: one Recommendation per contiguous window, in order of i
candidatesFrom(feas, o, requiredSlots, allSlots) ==
    LET window(i) == SubSeq(feas, i, i + requiredSlots - 1)
        starts == {i \in 1..Len(feas) : i - 1 + requiredSlots <= Len(feas)
                                        /\ isContiguous(window(i))}
        recOf == [i \in starts |-> makeRec(window(i), o, requiredSlots, allSlots)]
    IN  pick([i \in 1..Len(feas) |-> IF i \in starts THEN recOf[i] ELSE <<>>], starts)

lessDescending(a, b) == a.Score > b.Score

\* the less function handed to sort.Slice
less(a, b) == a.Score < b.Score

insertRecAppend(sorted, x) == sorted \o <<x>>

\* insertion sort (stable): x moves left while less(x, the element before it)
RECURSIVE insertRec(_, _)
insertRec(sorted, x) ==
    IF sorted = <<>> THEN <<x>>
    ELSE IF less(x, sorted[Len(sorted)])
         THEN insertRec(SubSeq(sorted, 1, Len(sorted) - 1), x) \o <<sorted[Len(sorted)]>>
         ELSE sorted \o <<x>>

RECURSIVE insertionSort(_)
insertionSort(cs) ==
    IF cs = <<>> THEN <<>>
    ELSE insertRec(insertionSort(SubSeq(cs, 1, Len(cs) - 1)), cs[Len(cs)])

\* the first k elements of every arrangement of the elements at idxs in which
\* no element is less than one before it
RECURSIVE arrangements(_, _, _)
arrangements(cs, idxs, k) ==
    IF idxs = {} \/ k = 0 THEN {<<>>}
    ELSE LET firsts == {i \in idxs : \A j \in idxs : ~less(cs[j], cs[i])}
         IN  UNION {{<<cs[i]>> \o r : r \in arrangements(cs, idxs \ {i}, k - 1)} : i \in firsts}

\* sort.Slice(candidates, less) followed by candidates[:keep]. sort.Slice is not
\* stable: it sorts up to InsertionSortMax elements by insertion, and beyond that
\* it may return any sorted arrangement
sortSlice(cs, keep) ==
    IF Len(cs) <= InsertionSortMax THEN {SubSeq(insertionSort(cs), 1, keep)}
    ELSE arrangements(cs, 1..Len(cs), keep)

topNOrDefaultNegativeOnly(n) == IF n < 0 THEN 3 ELSE n

\* "if topN <= 0 { topN = 3 }"
topNOrDefault(n) == IF n <= 0 THEN 3 ELSE n

invalidInputNoEmptyCheck(ss, rm) == rm <= 0

\* the two argument checks at the head of BestWindows
invalidInput(ss, rm) == Len(ss) = 0 \/ rm <= 0

tooFewFeasibleOffByOne(feas, requiredSlots) == Len(feas) <= requiredSlots

\* the check after filtering
tooFewFeasible(feas, requiredSlots) == Len(feas) < requiredSlots

\* BestWindows: the set of results [recs, err] a call can return
BestWindows(ss, rm, c, o, n) ==
    IF invalidInput(ss, rm) THEN {[recs |-> <<>>, err |-> ErrInvalidInput]}
    ELSE LET top == topNOrDefault(n)
             requiredSlots == requiredSlotsOf(rm)
             feas == filterByConstraints(ss, c)
             candidates == candidatesFrom(feas, o, requiredSlots, ss)
             keep == IF Len(candidates) > top THEN top ELSE Len(candidates)
         IN  IF tooFewFeasible(feas, requiredSlots)
             THEN {[recs |-> <<>>, err |-> ErrNoFeasibleSlots]}
             ELSE IF Len(candidates) = 0
             THEN {[recs |-> <<>>, err |-> ErrNoFeasibleSlots]}
             ELSE {[recs |-> sorted, err |-> ErrNil] : sorted \in sortSlice(candidates, keep)}

----------------------------------------------------------------------------
(* types.go *)

ClassStandalone == "standalone"
ClassCoupled == "coupled"
ClassWeatherDependent == "weather_dependent"

ControlManual == "manual"
ControlSmart == "smart"

FrequencyDaily == "daily"
Frequency3xWeek == "3x_week"
FrequencyWeekly == "weekly"
FrequencyOnDemand == "on_demand"

TimeWindow(start, end, days) == [Start |-> start, End |-> end, DaysOfWeek |-> days]
NoWindow == TimeWindow(<<>>, <<>>, <<>>)       \* the zero TimeWindow

Constraints(allowed, blocked, quiet, finishBy, startBy, cap, noise) ==
    [Allowed |-> allowed, Blocked |-> blocked, QuietHours |-> quiet,
     FinishBy |-> finishBy, StartBy |-> startBy, PriceCapPence |-> cap,
     NoiseLevel |-> noise]

\* an Appliance with the zero value in every field but the five given
Appliance(name, class, cycle, kwh, canWait) ==
    [ID |-> "", Name |-> name, CycleMinutes |-> cycle,
     AllowedWindows |-> <<>>, BlockedWindows |-> <<>>, FinishBy |-> Nil, StartBy |-> Nil,
     NoiseLevel |-> 0, PriceCapPencePerKWh |-> Nil, EstKWh |-> kwh, Enabled |-> FALSE,
     ControlType |-> "", UsageFrequency |-> "", Class |-> class,
     CoupledApplianceID |-> "", CanWaitDays |-> canWait]

\* a Household with the zero value in every field but the two given
Household(quiet, available) ==
    [QuietHours |-> quiet, AvailableHours |-> available, CarbonWeight |-> 0]

OptionsOf(kwh, carbon, pv) == [EstKWh |-> kwh, CarbonWeight |-> carbon, PVWeight |-> pv]

----------------------------------------------------------------------------
(* practical.go *)

DefaultAvailable == TimeWindow(HM(7, 0), HM(23, 30), <<1, 2, 3, 4, 5, 6, 7>>)

ApplyPracticalConstraintsToEveryone(a, h, c) ==
    IF Len(h.AvailableHours) > 0
    THEN [c EXCEPT !.Allowed = h.AvailableHours]
    ELSE [c EXCEPT !.Allowed = <<DefaultAvailable>>]

\* ApplyPracticalConstraints: the Constraints value *constraints holds on return
ApplyPracticalConstraints(a, h, c) ==
    IF a.ControlType = ControlManual
    THEN IF Len(h.AvailableHours) > 0
         THEN [c EXCEPT !.Allowed = h.AvailableHours]
         ELSE [c EXCEPT !.Allowed = <<DefaultAvailable>>]
    ELSE c

ShouldShowRecommendationAfterARun(a, last, current) ==
    CASE a.UsageFrequency = FrequencyDaily -> TRUE
      [] a.UsageFrequency = Frequency3xWeek -> TRUE
      [] a.UsageFrequency = FrequencyWeekly -> last # current
      [] a.UsageFrequency = FrequencyOnDemand -> FALSE
      [] OTHER -> FALSE

ShouldShowRecommendation(a, last, current) ==
    CASE a.UsageFrequency = FrequencyDaily -> TRUE
      [] a.UsageFrequency = Frequency3xWeek -> TRUE
      [] a.UsageFrequency = FrequencyWeekly -> TRUE
      [] a.UsageFrequency = FrequencyOnDemand -> FALSE
      [] OTHER -> FALSE

----------------------------------------------------------------------------
(* smart.go *)

ErrUnsupported == "unsupported appliance class or missing coupled appliance"
ErrNoSlotsFound == "no feasible slots found"
ErrNoOptionsFound == "no feasible options found"

\* checkDate.Format("2006-01-02") of now.AddDate(0, 0, dayOffset)
dateStrOf(t, dayOffset) == DayOf(t) + dayOffset

WeekdayNames ==
    <<"Sunday", "Monday", "Tuesday", "Wednesday", "Thursday", "Friday", "Saturday">>

getDayName(t, dayOffset) ==
    IF dayOffset = 0 THEN "Today"
    ELSE IF dayOffset = 1 THEN "Tomorrow"
    ELSE WeekdayNames[Weekday(t + dayOffset * 24 * 60) + 1]

inRun(p, start, end) == (p.Start = start \/ p.Start > start) /\ p.Start < end

estimateCostUndividedEnergy(prices, start, end, kwh) ==
    LET matching == {i \in 1..Len(prices) : inRun(prices[i], start, end)}
        n == Cardinality(matching)
    IN  IF n = 0 THEN 0
        ELSE (sumPence(pick(prices, matching), kwh * FixedPoint)) \div 100

estimateCost(prices, start, end, kwh) ==
    LET matching == {i \in 1..Len(prices) : inRun(prices[i], start, end)}
        n == Cardinality(matching)
    IN  IF n = 0 THEN 0
        ELSE (sumPence(pick(prices, matching), (kwh * FixedPoint) \div n)) \div 100

\* Option 1 of a day: the tumble-dry option appended to options
tumbleOption(options, washerSlot, dayOffset, prices, weather, dryer, t) ==
    LET dryerStart == washerSlot.End
        dryerEnd == dryerStart + dryer.CycleMinutes
        dryerCost == estimateCost(prices, dryerStart, dryerEnd, dryer.EstKWh)
        totalCost == washerSlot.CostGBP + dryerCost
    IN  [Day |-> getDayName(t, dayOffset),
         Date |-> t + dayOffset * 24 * 60,
         PrimarySlot |-> washerSlot,
         CoupledSlot |-> <<[Start |-> dryerStart, End |-> dryerEnd, CostGBP |-> dryerCost]>>,
         TotalCostGBP |-> totalCost,
         Weather |-> weather,
         UsesNaturalDry |-> FALSE,
         SavingsVsToday |-> IF Len(options) > 0
                            THEN options[1].TotalCostGBP - totalCost ELSE 0]

lineDryIgnoringClass(hasWeather, weather, dryer) ==
    hasWeather /\ weather[1].IsSunny /\ dryer # Nil

\* the condition of Option 2
lineDryApplies(hasWeather, weather, dryer) ==
    hasWeather /\ weather[1].IsSunny /\ dryer # Nil /\ dryer[1].Class = ClassWeatherDependent

\* Option 2 of a day: the line-dry option appended to options
lineDryOption(options, washerSlot, dayOffset, weather, t) ==
    [Day |-> getDayName(t, dayOffset),
     Date |-> t + dayOffset * 24 * 60,
     PrimarySlot |-> washerSlot,
     CoupledSlot |-> Nil,
     TotalCostGBP |-> washerSlot.CostGBP,
     Weather |-> weather,
     UsesNaturalDry |-> TRUE,
     SavingsVsToday |-> IF Len(options) > 0
                        THEN options[1].TotalCostGBP - washerSlot.CostGBP ELSE 0]

\* the options of one day with a washer slot, appended to options
dayOptions(options, washerSlot, dayOffset, prices, dryer, wByDay, t) ==
    LET dateStr == dateStrOf(t, dayOffset)
        hasWeather == dateStr \in DOMAIN wByDay
        weather == IF hasWeather THEN <<wByDay[dateStr]>> ELSE Nil
        withTumble ==
            IF dryer # Nil
            THEN Append(options,
                        tumbleOption(options, washerSlot, dayOffset, prices, weather, dryer[1], t))
            ELSE options
    IN  IF lineDryApplies(hasWeather, weather, dryer)
        THEN Append(withTumble, lineDryOption(withTumble, washerSlot, dayOffset, weather, t))
        ELSE withTumble

\* the day loop from dayOffset on: the set of option lists it can end with
RECURSIVE dayLoop(_, _, _, _, _, _, _, _, _)
dayLoop(dayOffset, daysToCheck, options, washer, dryer, pByDay, wByDay, call, t) ==
    IF ~(dayOffset < daysToCheck) THEN {options}
    ELSE LET dateStr == dateStrOf(t, dayOffset)
             next(opt) == dayLoop(dayOffset + 1, daysToCheck, opt, washer, dryer,
                                  pByDay, wByDay, call, t)
         IN  IF dateStr \notin DOMAIN pByDay THEN next(options)
             ELSE UNION {
                    IF r.err # ErrNil \/ Len(r.recs) = 0 THEN next(options)
                    ELSE next(dayOptions(options, r.recs[1], dayOffset, pByDay[dateStr],
                                         dryer, wByDay, t)) :
                    r \in BestWindows(pByDay[dateStr], washer.CycleMinutes, call.c, call.o, 1)}

RECURSIVE bestIdxLoopLastWins(_, _, _)
bestIdxLoopLastWins(options, i, bestIdx) ==
    IF ~(i < Len(options)) THEN bestIdx
    ELSE IF options[i + 1].TotalCostGBP <= options[bestIdx + 1].TotalCostGBP
         THEN bestIdxLoopLastWins(options, i + 1, i)
         ELSE bestIdxLoopLastWins(options, i + 1, bestIdx)

\* the loop "for i := 1; i < len(options); i++" from i on; indices are 0-based
RECURSIVE bestIdxLoop(_, _, _)
bestIdxLoop(options, i, bestIdx) ==
    IF ~(i < Len(options)) THEN bestIdx
    ELSE IF options[i + 1].TotalCostGBP < options[bestIdx + 1].TotalCostGBP
         THEN bestIdxLoop(options, i + 1, i)
         ELSE bestIdxLoop(options, i + 1, bestIdx)

\* "Find best option (lowest cost)": bestIdx := 0, then the loop
bestIndex(options) == bestIdxLoop(options, 1, 0)

noOptionsNegativeLength(options) == Len(options) < 0

\* the check "len(options) == 0" after the day loop
noOptions(options) == Len(options) = 0

generateCoupledRecommendation(washer, dryer, pByDay, wByDay, c, o, t) ==
    LET d0 == washer.CanWaitDays
        d1 == IF d0 = 0 THEN 1 ELSE d0
        daysToCheck == IF d1 > 3 THEN 3 ELSE d1
    IN  {IF noOptions(options) THEN [rec |-> Nil, err |-> ErrNoOptionsFound]
         ELSE [rec |-> <<[ApplianceName |-> washer.Name,
                          Options |-> options,
                          BestOptionIndex |-> bestIndex(options)]>>,
               err |-> ErrNil] :
         options \in dayLoop(0, daysToCheck, <<>>, washer, dryer, pByDay, wByDay,
                             [c |-> c, o |-> o], t)}

standaloneOptionCostingScore(rec) ==
    [Day |-> "Today", Date |-> rec.Start, PrimarySlot |-> rec, CoupledSlot |-> Nil,
     TotalCostGBP |-> rec.Score, Weather |-> Nil, UsesNaturalDry |-> FALSE,
     SavingsVsToday |-> 0]

\* the one RecommendationOption of the standalone path
standaloneOption(rec) ==
    [Day |-> "Today", Date |-> rec.Start, PrimarySlot |-> rec, CoupledSlot |-> Nil,
     TotalCostGBP |-> rec.CostGBP, Weather |-> Nil, UsesNaturalDry |-> FALSE,
     SavingsVsToday |-> 0]

generateStandaloneRecommendation(a, pByDay, c, o, t) ==
    LET today == dateStrOf(t, 0)
        found == IF today \in DOMAIN pByDay
                 THEN BestWindows(pByDay[today], a.CycleMinutes, c, o, 1)
                 ELSE {[recs |-> <<>>, err |-> ErrNoSlotsFound]}
    IN  {IF r.err = ErrNil /\ Len(r.recs) > 0
         THEN [rec |-> <<[ApplianceName |-> a.Name,
                          Options |-> <<standaloneOption(r.recs[1])>>,
                          BestOptionIndex |-> 0]>>,
               err |-> ErrNil]
         ELSE [rec |-> Nil, err |-> ErrNoSlotsFound] : r \in found}

dispatchesCoupledWhateverTheClass(a, coupled) == a.Class # ClassStandalone /\ coupled # Nil

\* the condition of the second dispatch of GenerateSmartRecommendations
dispatchesCoupled(a, coupled) == a.Class = ClassCoupled /\ coupled # Nil

\* GenerateSmartRecommendations: the set of results [rec, err] a call can return
GenerateSmartRecommendations(a, coupled, pByDay, wByDay, c, o, t) ==
    IF a.Class = ClassStandalone
    THEN generateStandaloneRecommendation(a, pByDay, c, o, t)
    ELSE IF dispatchesCoupled(a, coupled)
    THEN generateCoupledRecommendation(a, coupled, pByDay, wByDay, c, o, t)
    ELSE {[rec |-> Nil, err |-> ErrUnsupported]}

----------------------------------------------------------------------------
(* cmd/smart-run/main.go and internal/uiapi/server.go: the batch planners.      *)
(* The body of a planner's loop for one appliance gives the results after it  *)
(* and how the loop goes on: "continue" to the next appliance, or "return".   *)

\* the Constraints a planner builds for an appliance
constraintsOf(a, h) ==
    Constraints(a.AllowedWindows, a.BlockedWindows, h.QuietHours, a.FinishBy, a.StartBy,
                a.PriceCapPencePerKWh, a.NoiseLevel)

\* "opts := engine.Options{EstKWh: a.EstKWh, CarbonWeight: household.CarbonWeight}"
optsOf(a, h) == OptionsOf(a.EstKWh, h.CarbonWeight, 0)

skip(res) == [results |-> res, flow |-> "continue"]

planBodyReturningTheError(a, h, priceSlots, res) ==
    IF ~a.Enabled THEN {skip(res)}
    ELSE {IF r.err # ErrNil THEN [results |-> res, flow |-> "return"]
          ELSE skip(Append(res, [Appliance |-> a.Name, Recommendations |-> r.recs])) :
          r \in BestWindows(priceSlots, a.CycleMinutes, constraintsOf(a, h), optsOf(a, h), 3)}

\* planCmd: the body of "for _, a := range appliances"
planBody(a, h, priceSlots, res) ==
    IF ~a.Enabled THEN {skip(res)}
    ELSE {IF r.err # ErrNil THEN skip(res)
          ELSE skip(Append(res, [Appliance |-> a.Name, Recommendations |-> r.recs])) :
          r \in BestWindows(priceSlots, a.CycleMinutes, constraintsOf(a, h), optsOf(a, h), 3)}

\* todayEnd is 23:59:59 of t's day: a start on a minute is before it up to 23:59
beforeTodayEnd(start, t) == start <= DateOn(t, 23, 59)
afterTodayEnd(start, t) == start > DateOn(t, 23, 59)

\* the recommendations a search adds to bestRecs: none unless it succeeded
foundIn(ss, a, c, o) ==
    IF Len(ss) > 0
    THEN {IF r.err = ErrNil /\ Len(r.recs) > 0 THEN r.recs ELSE <<>> :
          r \in BestWindows(ss, a.CycleMinutes, c, o, 1)}
    ELSE {<<>>}

\* handleGetRecommendations: the body of "for _, a := range appliances"
recommendationsBody(a, h, priceSlots, t, res) ==
    IF ~a.Enabled THEN {skip(res)}
    ELSE IF ~ShouldShowRecommendation(a, <<>>, <<dateStrOf(t, 0)>>) THEN {skip(res)}
    ELSE LET c == ApplyPracticalConstraints(a, h, constraintsOf(a, h))
             isToday(i) == priceSlots[i].Start > t /\ beforeTodayEnd(priceSlots[i].Start, t)
             todaySlots == pick(priceSlots, {i \in 1..Len(priceSlots) : isToday(i)})
             tomorrowSlots ==
                 pick(priceSlots, {i \in 1..Len(priceSlots) :
                                      ~isToday(i) /\ afterTodayEnd(priceSlots[i].Start, t)})
         IN  {IF Len(today \o tomorrow) = 0 THEN skip(res)
              ELSE skip(Append(res, [Appliance |-> a.Name,
                                     Recommendations |-> today \o tomorrow])) :
              today \in foundIn(todaySlots, a, c, optsOf(a, h)),
              tomorrow \in foundIn(tomorrowSlots, a, c, optsOf(a, h))}

\* "Find coupled appliance (dryer)": the first appliance with the coupled ID
findCoupled(a, all) ==
    LET hits == {i \in 1..Len(all) : all[i].ID = a.CoupledApplianceID}
    IN  IF a.CoupledApplianceID # "" /\ hits # {}
        THEN <<all[CHOOSE i \in hits : \A j \in hits : i <= j]>>
        ELSE Nil

\* "Filter out past options" and the reset of BestOptionIndex
futureOnly(rec, t) ==
    LET keep == {i \in 1..Len(rec.Options) : rec.Options[i].PrimarySlot.Start > t}
        futureOptions == pick(rec.Options, keep)
    IN  [rec EXCEPT !.Options = futureOptions,
                    !.BestOptionIndex = IF @ >= Len(futureOptions) THEN 0 ELSE @]

\* handleSmartRecommendations: the body of "for _, a := range appliances"
smartRecommendationsBody(a, all, h, pByDay, wByDay, t, res) ==
    IF ~a.Enabled \/ a.Class # ClassCoupled THEN {skip(res)}
    ELSE IF ~ShouldShowRecommendation(a, <<>>, <<dateStrOf(t, 0)>>) THEN {skip(res)}
    ELSE LET c == ApplyPracticalConstraints(a, h, constraintsOf(a, h))
         IN  {IF r.err = ErrNil /\ r.rec # Nil
              THEN IF Len(futureOnly(r.rec[1], t).Options) > 0
                   THEN skip(Append(res, futureOnly(r.rec[1], t)))
                   ELSE skip(res)
              ELSE skip(res) :
              r \in GenerateSmartRecommendations(a, findCoupled(a, all), pByDay, wByDay,
                                                 c, optsOf(a, h), t)}

----------------------------------------------------------------------------
(* Inputs *)

Prices == 1..MaxPrice

\* half-hour grid points of a Sunday evening and the Monday after it
SlotStarts == {At(6, 21, 30), At(6, 22, 0), At(6, 23, 30), At(7, 0, 0), At(7, 0, 30)}

PriceSlot(start, price) ==
    [Start |-> start, End |-> start + SlotMinutes, PencePerKWh |-> price]

\* the slot lists on the start times T: ascending by start (sortSlotsByTime)
SlotListsOn(T) ==
    LET starts == SortInts(T)
    IN  {[i \in 1..Len(starts) |-> PriceSlot(starts[i], f[starts[i]])] : f \in [T -> Prices]}

SlotLists(maxLen) ==
    UNION {SlotListsOn(T) : T \in {X \in SUBSET SlotStarts : Cardinality(X) <= maxLen}}

QuietOvernight == TimeWindow(HM(22, 0), HM(7, 0), <<>>)      \* 22:00-07:00, all days
EveningSunday == TimeWindow(HM(21, 0), HM(23, 0), <<7>>)     \* 21:00-23:00 on Sundays
AroundMidnight == TimeWindow(HM(23, 30), HM(0, 30), <<>>)    \* 23:30-00:30, overnight
Unparsable == TimeWindow(HM(24, 0), HM(7, 0), <<>>)          \* "24:00" does not parse

NoConstraints == Constraints(<<>>, <<>>, <<>>, Nil, Nil, Nil, 1)

\* constraints of the window-search runs
SearchConstraints ==
    {NoConstraints,
     Constraints(<<>>, <<>>, <<>>, Nil, Nil, <<1>>, 1),
     Constraints(<<>>, <<>>, <<QuietOvernight>>, Nil, Nil, Nil, 4),
     Constraints(<<EveningSunday>>, <<>>, <<>>, Nil, Nil, Nil, 1)}

\* the full product of the six constraints, each absent or present
AllConstraints ==
    {Constraints(a, b, q, f, s, cap, nl) :
        a \in {<<>>, <<EveningSunday, Unparsable>>},
        b \in {<<>>, <<AroundMidnight>>},
        q \in {<<>>, <<QuietOvernight>>},
        f \in {Nil, <<At(7, 0, 30)>>},
        s \in {Nil, <<At(6, 23, 30)>>},
        cap \in {Nil, <<1>>},
        nl \in {2, 3}}

\* the 48 half-hourly slots of TestBestWindows: Sunday 2024-12-01, 00:00 onwards
FixturePrices ==
    <<15, 14, 13, 12,  11, 10, 9, 8,   12, 13, 15, 18,  20, 22, 24, 26,
      25, 24, 23, 22,  21, 20, 19, 18,  17, 16, 15, 14,  13, 12, 11, 10,
      15, 18, 20, 25,  30, 35, 40, 38,  35, 30, 25, 20,  18, 16, 15, 14>>

FixtureSlots ==
    [i \in 1..Len(FixturePrices) |->
        PriceSlot(At(6, 0, 0) + (i - 1) * SlotMinutes, FixturePrices[i])]

\* the constraints of the cases of TestBestWindows
FixtureConstraints ==
    {NoConstraints,
     Constraints(<<>>, <<>>, <<QuietOvernight>>, Nil, Nil, Nil, 4),
     Constraints(<<>>, <<>>, <<>>, Nil, Nil, <<20>>, 0)}

RunMinutesChoices == {-30, 0, 30, 45, 90}
TopNChoices == {0, 1, 2}
EstKWhChoices == {1, 2}

\* the weights of Options: both zero, or one of them set
Weights == {<<0, 0>>, <<1, 0>>, <<0, 1>>}

EngineInputs ==
    ([ss : SlotLists(MaxSlots), c : SearchConstraints, rm : RunMinutesChoices,
      kwh : EstKWhChoices, n : TopNChoices, cw : {0}, pv : {0}])
    \cup
    ([ss : SlotLists(MaxFilterSlots), c : AllConstraints, rm : {30},
      kwh : {1}, n : {1}, cw : {0}, pv : {0}])
    \cup
    ([ss : {FixtureSlots}, c : FixtureConstraints, rm : {30, 60, 90},
      kwh : {1}, n : {3}, cw : {0}, pv : {0}])
    \cup
    ([ss : SlotLists(MaxSlots), c : {NoConstraints}, rm : {30},
      kwh : {1}, n : {-1}, cw : {0}, pv : {0}])
    \cup
    {[ss |-> ss, c |-> NoConstraints, rm |-> rm, kwh |-> kwh, n |-> 3,
      cw |-> w[1], pv |-> w[2]] :
        ss \in SlotLists(MaxFilterSlots), rm \in {30, 45}, kwh \in EstKWhChoices,
        w \in Weights \ {<<0, 0>>}}

\* --- inputs of GenerateSmartRecommendations ---

NoAppliance == Appliance("", "", 0, 0, 0)

Noon == At(6, 12, 0)                      \* the call is made on a Sunday at noon
Today == DayOf(Noon)

DayPrices == {1, 2}

\* a day's price list: empty, or MaxDaySlots half-hours from 22:30 on
DayLists(day) ==
    {<<>>} \cup
    {[i \in 1..MaxDaySlots |-> PriceSlot(At(day, 22, 30) + (i - 1) * SlotMinutes, f[i])] :
        f \in [1..MaxDaySlots -> DayPrices]}

\* the functions from a subset of the days D to the values V(day)
Maps(D, V(_)) ==
    UNION {{f \in [X -> UNION {V(d) : d \in X}] : \A d \in X : f[d] \in V(d)} : X \in SUBSET D}

Forecasts(day) == {[Date |-> At(day, 0, 0), IsSunny |-> b] : b \in BOOLEAN}

\* the days whose data the inputs vary for an appliance that can wait n days;
\* the data of the other days up to the fourth is fixed
VariedDays(n) == Today..(Today + (IF n <= 1 THEN 1 ELSE IF n > 3 THEN 3 ELSE n) - 1)
FixedDays(n) == (Today..(Today + 3)) \ VariedDays(n)

PriceMaps(n) ==
    {p @@ [d \in FixedDays(n) |-> <<PriceSlot(At(d, 22, 30), 1)>>] :
        p \in Maps(VariedDays(n), DayLists)}

WeatherMaps(n) ==
    {w @@ [d \in FixedDays(n) |-> [Date |-> At(d, 0, 0), IsSunny |-> TRUE]] :
        w \in Maps(VariedDays(n), Forecasts)}

AllSunny == [d \in Today..(Today + 3) |-> [Date |-> At(d, 0, 0), IsSunny |-> TRUE]]

CanWaitChoices == {-1, 0, 2, 3, 4}
DryerClasses == {ClassWeatherDependent, ClassStandalone}

\* the forecasts vary where they can decide an option: with a weather_dependent
\* dryer and a wait within the three days looked at; elsewhere every day is sunny
WeatherChoices(n, class) ==
    IF class = ClassWeatherDependent /\ n <= 3 THEN WeatherMaps(n) ELSE {AllSunny}

\* an evening of three half-hours from 22:30 on: a one-hour dryer run that
\* follows the first of them covers the other two
LongDaySlots == 3     \* slots of the long evening
LongDayLists ==
    {[i \in 1..LongDaySlots |-> PriceSlot(At(Today, 22, 30) + (i - 1) * SlotMinutes, f[i])] :
        f \in [1..LongDaySlots -> DayPrices]}

LongEvenings ==
    {[d \in Today..(Today + 3) |->
        IF d = Today THEN l ELSE <<PriceSlot(At(d, 22, 30), 1)>>] : l \in LongDayLists}

SmartInputs ==
    UNION {[a : {Appliance("Washer", ClassCoupled, 30, 1, n)},
            d : {<<Appliance("Dryer", cl, 60, 1, 0)>>},
            p : PriceMaps(n),
            w : WeatherChoices(n, cl)] : n \in CanWaitChoices, cl \in DryerClasses}
    \cup
    ([a : {Appliance("Washer", cl, 30, 1, 2) :
              cl \in {ClassStandalone, ClassCoupled, ClassWeatherDependent, ""}},
      d : {Nil, <<Appliance("Dryer", ClassWeatherDependent, 60, 1, 0)>>},
      p : PriceMaps(1),
      w : {AllSunny}])
    \cup
    ([a : {Appliance("Washer", ClassCoupled, 30, 1, 1)},
      d : {<<Appliance("Dryer", ClassWeatherDependent, 60, kwh, 0)>> : kwh \in EstKWhChoices},
      p : LongEvenings,
      w : {AllSunny}])

----------------------------------------------------------------------------
(* The engine's operations, each applied to the inputs drawn by Init *)

Init ==
    /\ \E in \in EngineInputs :
          /\ slots = in.ss
          /\ constraints = in.c
          /\ runMinutes = in.rm
          /\ opts = OptionsOf(in.kwh, in.cw, in.pv)
          /\ topN = in.n
    /\ pc = "input"
    /\ recs = <<>>
    /\ err = ErrNil
    /\ feasible = <<>>
    /\ refiltered = <<>>
    /\ appliance = NoAppliance
    /\ coupledAppliance = Nil
    /\ pricesByDay = <<>>
    /\ weatherByDay = <<>>
    /\ now = Noon
    /\ smartRec = Nil
    /\ smartErr = ErrNil
    /\ household = Household(<<>>, <<>>)
    /\ lastRunDate = ""
    /\ currentDate = ""
    /\ show = FALSE
    /\ caller = ""
    /\ appliances = <<>>
    /\ cursor = 0
    /\ results = <<>>
    /\ status = ""
    /\ again = Nil
    /\ instant = 0
    /\ timeWindow = NoWindow
    /\ matched = FALSE

BestWindowsCall ==
    /\ pc = "input"
    /\ \E r \in BestWindows(slots, runMinutes, constraints, opts, topN) :
          /\ recs' = r.recs
          /\ err' = r.err
    /\ pc' = "BestWindows"
    /\ UNCHANGED <<slots, runMinutes, constraints, opts, topN, feasible, refiltered>>
    /\ UNCHANGED smartVars
    /\ UNCHANGED practicalVars
    /\ UNCHANGED batchVars
    /\ UNCHANGED again
    /\ UNCHANGED windowVars

FilterCall ==
    /\ pc = "input"
    /\ feasible' = filterByConstraints(slots, constraints)
    /\ pc' = "filtered"
    /\ UNCHANGED <<slots, runMinutes, constraints, opts, topN, recs, err, refiltered>>
    /\ UNCHANGED smartVars
    /\ UNCHANGED practicalVars
    /\ UNCHANGED batchVars
    /\ UNCHANGED again
    /\ UNCHANGED windowVars

FilterAgainCall ==
    /\ pc = "filtered"
    /\ refiltered' = filterByConstraints(feasible, constraints)
    /\ pc' = "refiltered"
    /\ UNCHANGED <<slots, runMinutes, constraints, opts, topN, recs, err, feasible>>
    /\ UNCHANGED smartVars
    /\ UNCHANGED practicalVars
    /\ UNCHANGED batchVars
    /\ UNCHANGED again
    /\ UNCHANGED windowVars

Next == BestWindowsCall \/ FilterCall \/ FilterAgainCall

Spec == Init /\ [][Next]_vars

----------------------------------------------------------------------------
(* GenerateSmartRecommendations applied to the inputs drawn by InitSmart *)

InitSmart ==
    /\ \E in \in SmartInputs :
          /\ appliance = in.a
          /\ coupledAppliance = in.d
          /\ pricesByDay = in.p
          /\ weatherByDay = in.w
    /\ now = Noon
    /\ constraints = NoConstraints
    /\ opts = OptionsOf(1, 0, 0)
    /\ pc = "input"
    /\ smartRec = Nil
    /\ smartErr = ErrNil
    /\ slots = <<>>
    /\ runMinutes = 0
    /\ topN = 0
    /\ recs = <<>>
    /\ err = ErrNil
    /\ feasible = <<>>
    /\ refiltered = <<>>
    /\ household = Household(<<>>, <<>>)
    /\ lastRunDate = ""
    /\ currentDate = ""
    /\ show = FALSE
    /\ caller = ""
    /\ appliances = <<>>
    /\ cursor = 0
    /\ results = <<>>
    /\ status = ""
    /\ again = Nil
    /\ instant = 0
    /\ timeWindow = NoWindow
    /\ matched = FALSE

GenerateSmartRecommendationsCall ==
    /\ pc = "input"
    /\ \E r \in GenerateSmartRecommendations(appliance, coupledAppliance, pricesByDay,
                                             weatherByDay, constraints, opts, now) :
          /\ smartRec' = r.rec
          /\ smartErr' = r.err
    /\ pc' = "smart"
    /\ UNCHANGED <<appliance, coupledAppliance, pricesByDay, weatherByDay, now,
                   constraints, opts>>
    /\ UNCHANGED engineVars
    /\ UNCHANGED practicalVars
    /\ UNCHANGED batchVars
    /\ UNCHANGED again
    /\ UNCHANGED windowVars

NextSmart == GenerateSmartRecommendationsCall

SpecSmart == InitSmart /\ [][NextSmart]_vars

----------------------------------------------------------------------------
(* practical.go applied to an appliance of the store, as the handlers do *)

Mornings == TimeWindow(HM(6, 0), HM(9, 0), <<1, 2, 3, 4, 5>>)   \* 06:00-09:00 on weekdays

\* a date string "2006-01-02": <<>> is the empty string, <<d>> the date of day d
DateStrings == {<<>>, <<Today - 1>>, <<Today>>, <<Today + 1>>}

PracticalAppliances ==
    {[Appliance("Washer", ClassStandalone, 30, 1, 0) EXCEPT
         !.ControlType = ct, !.UsageFrequency = uf, !.AllowedWindows = al,
         !.BlockedWindows = bl, !.NoiseLevel = 3, !.PriceCapPencePerKWh = cap,
         !.StartBy = <<At(6, 23, 30)>>, !.Enabled = TRUE] :
        ct \in {ControlManual, ControlSmart, ""},
        uf \in {FrequencyDaily, Frequency3xWeek, FrequencyWeekly, FrequencyOnDemand,
                "", "monthly"},
        al \in {<<>>, <<EveningSunday>>},
        bl \in {<<>>, <<AroundMidnight>>},
        cap \in {Nil, <<1>>}}

Households ==
    {Household(q, av) : q \in {<<>>, <<QuietOvernight>>},
                        av \in {<<>>, <<Mornings>>, <<Mornings, EveningSunday>>}}

InitPractical ==
    /\ appliance \in PracticalAppliances
    /\ household \in Households
    /\ constraints = constraintsOf(appliance, household)
    /\ lastRunDate \in DateStrings
    /\ currentDate \in DateStrings \ {<<>>}
    /\ show = FALSE
    /\ caller = ""
    /\ appliances = <<>>
    /\ cursor = 0
    /\ results = <<>>
    /\ status = ""
    /\ again = Nil
    /\ instant = 0
    /\ timeWindow = NoWindow
    /\ matched = FALSE
    /\ pc = "input"
    /\ opts = optsOf(appliance, household)
    /\ coupledAppliance = Nil
    /\ pricesByDay = <<>>
    /\ weatherByDay = <<>>
    /\ now = Noon
    /\ smartRec = Nil
    /\ smartErr = ErrNil
    /\ slots = <<>>
    /\ runMinutes = 0
    /\ topN = 0
    /\ recs = <<>>
    /\ err = ErrNil
    /\ feasible = <<>>
    /\ refiltered = <<>>

ShouldShowRecommendationCall ==
    /\ pc = "input"
    /\ show' = ShouldShowRecommendation(appliance, lastRunDate, currentDate)
    /\ pc' = "show"
    /\ UNCHANGED <<household, lastRunDate, currentDate, constraints, opts>>
    /\ UNCHANGED engineVars
    /\ UNCHANGED smartVars
    /\ UNCHANGED batchVars
    /\ UNCHANGED again
    /\ UNCHANGED windowVars

ApplyPracticalConstraintsCall ==
    /\ pc = "input"
    /\ constraints' = ApplyPracticalConstraints(appliance, household, constraints)
    /\ pc' = "practical"
    /\ UNCHANGED <<opts>>
    /\ UNCHANGED engineVars
    /\ UNCHANGED smartVars
    /\ UNCHANGED practicalVars
    /\ UNCHANGED batchVars
    /\ UNCHANGED again
    /\ UNCHANGED windowVars

NextPractical == ShouldShowRecommendationCall \/ ApplyPracticalConstraintsCall

SpecPractical == InitPractical /\ [][NextPractical]_vars

----------------------------------------------------------------------------
(* The batch planners, each run over the appliances of the store *)

\* the price feed: Sunday 23:00 and 23:30, Monday 00:00 and 00:30
BatchSlots ==
    <<PriceSlot(At(6, 23, 0), 2), PriceSlot(At(6, 23, 30), 1),
      PriceSlot(At(7, 0, 0), 1), PriceSlot(At(7, 0, 30), 2)>>

\* the same feed as /smart-recommendations fetches it, day by day
BatchPricesByDay ==
    [d \in {Today, Today + 1} |->
        SelectSeq(BatchSlots, LAMBDA p : DayOf(p.Start) = d)]

ApplianceIDs == <<"a1", "a2", "a3", "a4", "a5">>

Steady ==
    [Appliance("", ClassStandalone, 30, 1, 0) EXCEPT
        !.Enabled = TRUE, !.ControlType = ControlSmart, !.UsageFrequency = FrequencyDaily]

BatchDryer ==
    [Steady EXCEPT !.ID = "dryer", !.Name = "dryer", !.Class = ClassWeatherDependent,
                   !.CycleMinutes = 60]

\* the kinds of appliance in the store: one that plans, one with no cycle length
\* (InvalidInput), one no price satisfies (NoFeasibleSlots), one shown on demand
\* only, a washer with its dryer, one with no cycle length (no options on any
\* day) and one whose dryer is not in the store (unsupported)
ApplianceKinds ==
    {Steady,
     [Steady EXCEPT !.CycleMinutes = 0],
     [Steady EXCEPT !.PriceCapPencePerKWh = <<0>>],
     [Steady EXCEPT !.UsageFrequency = FrequencyOnDemand],
     [Steady EXCEPT !.Class = ClassCoupled, !.CoupledApplianceID = "dryer",
                    !.CanWaitDays = 2],
     [Steady EXCEPT !.Class = ClassCoupled, !.CoupledApplianceID = "dryer",
                    !.CanWaitDays = 2, !.CycleMinutes = 0],
     [Steady EXCEPT !.Class = ClassCoupled, !.CoupledApplianceID = "gone"]}

Stores ==
    UNION {{[i \in 1..(n + 1) |->
                IF i = n + 1 THEN BatchDryer
                ELSE [f[i] EXCEPT !.ID = ApplianceIDs[i], !.Name = ApplianceIDs[i]]] :
            f \in [1..n -> ApplianceKinds]} : n \in 0..MaxAppliances}

InitBatch ==
    /\ caller \in {"plan", "recommendations", "smart-recommendations"}
    /\ appliances \in Stores
    /\ household = Household(<<QuietOvernight>>, <<>>)
    /\ slots = BatchSlots
    /\ pricesByDay = BatchPricesByDay
    /\ weatherByDay = AllSunny
    /\ now \in {Noon, At(6, 23, 45)}
    /\ cursor = 0
    /\ results = <<>>
    /\ status = ""
    /\ again = Nil
    /\ instant = 0
    /\ timeWindow = NoWindow
    /\ matched = FALSE
    /\ pc = "loop"
    /\ constraints = NoConstraints
    /\ opts = OptionsOf(1, 0, 0)
    /\ appliance = NoAppliance
    /\ coupledAppliance = Nil
    /\ smartRec = Nil
    /\ smartErr = ErrNil
    /\ runMinutes = 0
    /\ topN = 0
    /\ recs = <<>>
    /\ err = ErrNil
    /\ feasible = <<>>
    /\ refiltered = <<>>
    /\ lastRunDate = ""
    /\ currentDate = ""
    /\ show = FALSE

\* the loop goes on to the next appliance, or the planner returns an error
goOn(out) ==
    /\ results' = out.results
    /\ IF out.flow = "continue"
       THEN cursor' = cursor + 1 /\ pc' = pc /\ status' = status
       ELSE cursor' = cursor /\ pc' = "done" /\ status' = "error"
    /\ UNCHANGED <<caller, appliances, household, slots, pricesByDay, weatherByDay, now>>
    /\ UNCHANGED <<constraints, opts, appliance, coupledAppliance, smartRec, smartErr,
                   runMinutes, topN, recs, err, feasible, refiltered,
                   lastRunDate, currentDate, show, again>>
    /\ UNCHANGED windowVars

PlanStep ==
    /\ pc = "loop" /\ caller = "plan" /\ cursor < Len(appliances)
    /\ \E out \in planBody(appliances[cursor + 1], household, slots, results) : goOn(out)

RecommendationsStep ==
    /\ pc = "loop" /\ caller = "recommendations" /\ cursor < Len(appliances)
    /\ \E out \in recommendationsBody(appliances[cursor + 1], household, slots, now,
                                       results) : goOn(out)

SmartRecommendationsStep ==
    /\ pc = "loop" /\ caller = "smart-recommendations" /\ cursor < Len(appliances)
    /\ \E out \in smartRecommendationsBody(appliances[cursor + 1], appliances, household,
                                            pricesByDay, weatherByDay, now, results) :
          goOn(out)

\* the loop is over: the results are encoded and the planner ends well
Respond ==
    /\ pc = "loop" /\ cursor = Len(appliances)
    /\ pc' = "done"
    /\ status' = "ok"
    /\ UNCHANGED <<caller, appliances, cursor, results>>
    /\ UNCHANGED engineVars
    /\ UNCHANGED smartVars
    /\ UNCHANGED <<constraints, opts, household, lastRunDate, currentDate, show, again>>
    /\ UNCHANGED windowVars

NextBatch == PlanStep \/ RecommendationsStep \/ SmartRecommendationsStep \/ Respond

SpecBatch == InitBatch /\ [][NextBatch]_vars

----------------------------------------------------------------------------
(* Each engine operation called twice with the same arguments, any time apart *)

RepeatAppliances ==
    {[Appliance("Washer", cl, 30, 1, 2) EXCEPT !.UsageFrequency = uf] :
        cl \in {ClassStandalone, ClassCoupled},
        uf \in {FrequencyWeekly, FrequencyOnDemand}}

InitRepeat ==
    /\ slots \in SlotLists(1)
    /\ constraints \in {NoConstraints, Constraints(<<>>, <<>>, <<>>, Nil, Nil, <<1>>, 1)}
    /\ runMinutes = 30
    /\ opts = OptionsOf(1, 0, 0)
    /\ topN = 1
    /\ appliance \in RepeatAppliances
    /\ coupledAppliance = <<Appliance("Dryer", ClassWeatherDependent, 60, 1, 0)>>
    /\ pricesByDay \in PriceMaps(1)
    /\ weatherByDay = AllSunny
    /\ household = Household(<<>>, <<>>)
    /\ lastRunDate = <<>>
    /\ currentDate = <<Today>>
    /\ now = Noon
    /\ pc = "input"
    /\ recs = <<>>
    /\ err = ErrNil
    /\ feasible = <<>>
    /\ refiltered = <<>>
    /\ smartRec = Nil
    /\ smartErr = ErrNil
    /\ show = FALSE
    /\ caller = ""
    /\ appliances = <<>>
    /\ cursor = 0
    /\ results = <<>>
    /\ status = ""
    /\ again = Nil
    /\ instant = 0
    /\ timeWindow = NoWindow
    /\ matched = FALSE

\* a day goes by between the two calls
TimePasses ==
    /\ pc \in {"BestWindows", "filtered", "smart", "show"}
    /\ now = Noon
    /\ now' = now + 24 * 60
    /\ UNCHANGED <<slots, runMinutes, constraints, opts, topN, pc, recs, err, feasible,
                   refiltered, appliance, coupledAppliance, pricesByDay, weatherByDay,
                   smartRec, smartErr, again>>
    /\ UNCHANGED windowVars
    /\ UNCHANGED practicalVars
    /\ UNCHANGED batchVars

\* the second call leaves everything but its own result as it is
secondCall(op, result) ==
    /\ pc = op
    /\ again' = <<result>>
    /\ pc' = "twice"
    /\ UNCHANGED <<slots, runMinutes, constraints, opts, topN, recs, err, feasible,
                   refiltered>>
    /\ UNCHANGED windowVars
    /\ UNCHANGED smartVars
    /\ UNCHANGED practicalVars
    /\ UNCHANGED batchVars

BestWindowsAgain ==
    \E r \in BestWindows(slots, runMinutes, constraints, opts, topN) :
        secondCall("BestWindows", [op |-> "BestWindows", value |-> r])

FilterSameAgain ==
    \E r \in {filterByConstraints(slots, constraints)} :
        secondCall("filtered", [op |-> "filterByConstraints", value |-> r])

ShouldShowRecommendationAgain ==
    \E r \in {ShouldShowRecommendation(appliance, lastRunDate, currentDate)} :
        secondCall("show", [op |-> "ShouldShowRecommendation", value |-> r])

GenerateSmartRecommendationsAgain ==
    \E r \in GenerateSmartRecommendations(appliance, coupledAppliance, pricesByDay,
                                          weatherByDay, constraints, opts, now) :
        secondCall("smart", [op |-> "GenerateSmartRecommendations", value |-> r])

NextRepeat ==
    \/ BestWindowsCall \/ FilterCall \/ ShouldShowRecommendationCall
    \/ GenerateSmartRecommendationsCall
    \/ TimePasses
    \/ BestWindowsAgain \/ FilterSameAgain \/ ShouldShowRecommendationAgain
    \/ GenerateSmartRecommendationsAgain

SpecRepeat == InitRepeat /\ [][NextRepeat]_vars

----------------------------------------------------------------------------
(* The window search under the constraints the practical adapter leaves *)

\* the half-hours from Sunday 22:30 to Monday 00:30, one price slot each
EveningStarts == {At(6, 22, 30), At(6, 23, 0), At(6, 23, 30), At(7, 0, 0), At(7, 0, 30)}

ManualAppliances ==
    {[Appliance("Washer", ClassStandalone, cycle, 1, 0) EXCEPT
         !.ControlType = ct, !.UsageFrequency = FrequencyDaily, !.Enabled = TRUE] :
        cycle \in {30, 60, 120}, ct \in {ControlManual, ControlSmart}}

InitManual ==
    /\ appliance \in ManualAppliances
    /\ household \in {Household(<<>>, <<>>), Household(<<>>, <<EveningSunday>>)}
    /\ slots \in SlotListsOn(EveningStarts)
    /\ runMinutes = appliance.CycleMinutes
    /\ constraints = constraintsOf(appliance, household)
    /\ opts = optsOf(appliance, household)
    /\ topN = Cardinality(EveningStarts)
    /\ pc = "input"
    /\ recs = <<>>
    /\ err = ErrNil
    /\ feasible = <<>>
    /\ refiltered = <<>>
    /\ coupledAppliance = Nil
    /\ pricesByDay = <<>>
    /\ weatherByDay = <<>>
    /\ now = Noon
    /\ smartRec = Nil
    /\ smartErr = ErrNil
    /\ lastRunDate = ""
    /\ currentDate = ""
    /\ show = FALSE
    /\ caller = ""
    /\ appliances = <<>>
    /\ cursor = 0
    /\ results = <<>>
    /\ status = ""
    /\ again = Nil
    /\ instant = 0
    /\ timeWindow = NoWindow
    /\ matched = FALSE

\* BestWindows with the constraints ApplyPracticalConstraints has been through
BestWindowsPlanned ==
    /\ pc = "practical"
    /\ \E r \in BestWindows(slots, runMinutes, constraints, opts, topN) :
          /\ recs' = r.recs
          /\ err' = r.err
    /\ pc' = "BestWindows"
    /\ UNCHANGED <<slots, runMinutes, constraints, opts, topN, feasible, refiltered>>
    /\ UNCHANGED smartVars
    /\ UNCHANGED practicalVars
    /\ UNCHANGED batchVars
    /\ UNCHANGED again
    /\ UNCHANGED windowVars

NextManual == ApplyPracticalConstraintsCall \/ BestWindowsPlanned

SpecManual == InitManual /\ [][NextManual]_vars

----------------------------------------------------------------------------
(* matchesTimeWindow applied to a timestamp and a window *)

\* Saturday evening to Monday morning, on and beside the ends of the windows
Instants ==
    {At(5, 23, 30), At(6, 6, 59), At(6, 7, 0), At(6, 21, 59), At(6, 22, 0), At(6, 23, 30),
     At(7, 0, 0), At(7, 0, 29), At(7, 0, 30), At(7, 7, 0)}

\* "24:00" and "23:60" do not parse, nor does the empty string
WindowStarts == {HM(7, 0), HM(22, 0), HM(23, 30), HM(24, 0), <<>>}
WindowEnds == {HM(7, 0), HM(22, 0), HM(0, 30), HM(23, 60)}
WindowDays == {<<>>, <<7>>, <<1>>, <<6, 1>>, <<0>>}

InitWindow ==
    /\ instant \in Instants
    /\ timeWindow \in {TimeWindow(st, en, days) :
                           st \in WindowStarts, en \in WindowEnds, days \in WindowDays}
    /\ matched = FALSE
    /\ pc = "input"
    /\ slots = <<>>
    /\ runMinutes = 0
    /\ constraints = NoConstraints
    /\ opts = OptionsOf(0, 0, 0)
    /\ topN = 0
    /\ recs = <<>>
    /\ err = ErrNil
    /\ feasible = <<>>
    /\ refiltered = <<>>
    /\ appliance = NoAppliance
    /\ coupledAppliance = Nil
    /\ pricesByDay = <<>>
    /\ weatherByDay = <<>>
    /\ now = Noon
    /\ smartRec = Nil
    /\ smartErr = ErrNil
    /\ household = Household(<<>>, <<>>)
    /\ lastRunDate = ""
    /\ currentDate = ""
    /\ show = FALSE
    /\ caller = ""
    /\ appliances = <<>>
    /\ cursor = 0
    /\ results = <<>>
    /\ status = ""
    /\ again = Nil

MatchesTimeWindowCall ==
    /\ pc = "input"
    /\ matched' = matchesTimeWindow(instant, timeWindow)
    /\ pc' = "matches"
    /\ UNCHANGED <<instant, timeWindow, constraints, opts, again>>
    /\ UNCHANGED engineVars
    /\ UNCHANGED smartVars
    /\ UNCHANGED practicalVars
    /\ UNCHANGED batchVars

NextWindow == MatchesTimeWindowCall

SpecWindow == InitWindow /\ [][NextWindow]_vars

----------------------------------------------------------------------------
(* What the claims speak of, stated from the inputs *)

Succeeded == pc = "BestWindows" /\ err = ErrNil
Required == Ceil(runMinutes, 30)
Feasible == filterByConstraints(slots, constraints)

TimeContiguous(w) == \A j \in 2..Len(w) : w[j].Start = w[j-1].End

\* the candidate runs: Required consecutive feasible slots, contiguous in time
CandidateRuns ==
    {w \in {SubSeq(Feasible, i, i + Required - 1) : i \in 1..(Len(Feasible) - Required + 1)} :
        TimeContiguous(w)}

RECURSIVE SumPrices(_)
SumPrices(w) == IF w = <<>> THEN 0 ELSE Head(w).PencePerKWh + SumPrices(Tail(w))

\* the score of a run: the sum over its slots of price * (EstKWh / Required)
RunScore(w) == (SumPrices(w) * opts.EstKWh * FixedPoint) \div Required

TimeOfDay(t) == t % (24 * 60)
InQuiet2207(t) == TimeOfDay(t) >= 22 * 60 \/ TimeOfDay(t) < 7 * 60

\* the input slots a recommendation covers
SlotsUnder(rec) == {s \in Range(slots) : rec.Start <= s.Start /\ s.Start < rec.End}

\* C1: when BestWindows succeeds, its first recommendation is a candidate run of
\* minimum score: no candidate run scores strictly lower. On the 48-slot fixture
\* without constraints, 60 minutes gives the pair 9 + 8 = 17 and 90 minutes gives
\* the run starting at 02:30.
C1_FirstIsCheapest ==
    Succeeded =>
        /\ \A w \in CandidateRuns : recs[1].Score <= RunScore(w)
        /\ \E w \in CandidateRuns : /\ recs[1].Score = RunScore(w)
                                    /\ recs[1].Start = w[1].Start
        /\ (slots = FixtureSlots /\ constraints = NoConstraints /\ runMinutes = 60)
              => recs[1].Score = (17 * FixedPoint) \div 2
        /\ (slots = FixtureSlots /\ constraints = NoConstraints /\ runMinutes = 90)
              => recs[1].Start = At(6, 2, 30)

\* a success whose cheapest run is not the earliest one: an earlier run costs more
C1_Witness ==
    /\ Succeeded
    /\ \E w \in CandidateRuns : w[1].Start < recs[1].Start /\ RunScore(w) > recs[1].Score

\* C2: the list BestWindows returns is sorted non-decreasing by Score.
C2_SortedByScore ==
    Succeeded => \A i \in 2..Len(recs) : recs[i-1].Score <= recs[i].Score

\* three results, strictly increasing, of which the cheapest starts last
C2_Witness ==
    /\ Succeeded
    /\ Len(recs) = 3
    /\ recs[1].Score < recs[2].Score /\ recs[2].Score < recs[3].Score
    /\ recs[1].Start > recs[3].Start

\* C3: every returned recommendation lasts ceil(runMinutes/30) * 30 minutes, which
\* is at least runMinutes, and is built from feasible slots that are contiguous.
C3_DurationAndContiguity ==
    Succeeded =>
        \A k \in 1..Len(recs) :
            /\ recs[k].End - recs[k].Start >= runMinutes
            /\ recs[k].End - recs[k].Start = Required * 30
            /\ \E i \in 1..(Len(Feasible) - Required + 1) :
                  LET w == SubSeq(Feasible, i, i + Required - 1)
                  IN  /\ w[1].Start = recs[k].Start
                      /\ w[Required].End = recs[k].End
                      /\ \A j \in 2..Required : w[j].Start = w[j-1].End

\* a 45-minute run (rounded up to an hour) found although some window of
\* consecutive feasible slots has a gap
C3_Witness ==
    /\ Succeeded
    /\ runMinutes = 45
    /\ \E i \in 1..(Len(Feasible) - Required + 1) :
          ~TimeContiguous(SubSeq(Feasible, i, i + Required - 1))

\* C4: with noiseLevel >= 3 and quiet hours 22:00-07:00 on all days, no returned
\* recommendation starts at a time of day in [22:00, 24:00) or [00:00, 07:00).
C4_NoStartInQuietHours ==
    (pc = "BestWindows" /\ constraints.NoiseLevel >= 3
        /\ constraints.QuietHours = <<QuietOvernight>>)
    => \A k \in 1..Len(recs) : ~InQuiet2207(recs[k].Start)

\* C5: with a price cap, every slot under a returned recommendation is priced at
\* most the cap; and with no other constraint set, filterByConstraints drops
\* exactly the slots priced strictly above the cap.
C5_PriceCap ==
    /\ (Succeeded /\ constraints.PriceCapPence # Nil)
          => \A k \in 1..Len(recs) : \A s \in SlotsUnder(recs[k]) :
                s.PencePerKWh <= constraints.PriceCapPence[1]
    /\ (pc = "filtered" /\ constraints.PriceCapPence # Nil
          /\ constraints.Allowed = <<>> /\ constraints.Blocked = <<>>
          /\ constraints.QuietHours = <<>> /\ constraints.StartBy = Nil
          /\ constraints.FinishBy = Nil)
          => feasible = pick(slots, {i \in 1..Len(slots) :
                                ~(slots[i].PencePerKWh > constraints.PriceCapPence[1])})

\* a capped search that succeeds although a slot at the cap and a slot above it
\* are both offered
C5_Witness ==
    /\ Succeeded
    /\ constraints.PriceCapPence # Nil
    /\ \E s \in Range(slots) : s.PencePerKWh > constraints.PriceCapPence[1]
    /\ \E s \in SlotsUnder(recs[1]) : s.PencePerKWh = constraints.PriceCapPence[1]

\* C6: filterByConstraints is idempotent: filtering its result again with the same
\* constraints returns the same sequence.
C6_FilterIdempotent ==
    pc = "refiltered" => refiltered = feasible

\* a second filtering of a list the first filtering shortened but left non-empty
C6_Witness ==
    /\ pc = "refiltered"
    /\ Len(feasible) > 0
    /\ Len(feasible) < Len(slots)

\* the six conditions of the constraint filter
Satisfies(s, c) ==
    /\ c.PriceCapPence = Nil \/ s.PencePerKWh <= c.PriceCapPence[1]
    /\ c.Allowed = <<>> \/ isInTimeWindows(s.Start, c.Allowed)
    /\ c.Blocked = <<>> \/ ~isInTimeWindows(s.Start, c.Blocked)
    /\ (c.NoiseLevel >= 3 /\ c.QuietHours # <<>>) => ~isInTimeWindows(s.Start, c.QuietHours)
    /\ c.StartBy = Nil \/ s.Start <= c.StartBy[1]
    /\ c.FinishBy = Nil \/ s.End <= c.FinishBy[1]

\* C7: filterByConstraints returns exactly the slots that satisfy all six
\* conditions, in their input order, each once.
C7_FilterIsSubsequence ==
    pc = "filtered" =>
        feasible = SelectSeq(slots, LAMBDA s : Satisfies(s, constraints))

\* all six constraints set, quiet hours in force, and the filter keeps one slot
\* and drops another
C7_Witness ==
    /\ pc = "filtered"
    /\ constraints.PriceCapPence # Nil /\ constraints.Allowed # <<>>
    /\ constraints.Blocked # <<>> /\ constraints.QuietHours # <<>>
    /\ constraints.NoiseLevel >= 3
    /\ constraints.StartBy # Nil /\ constraints.FinishBy # Nil
    /\ Len(slots) = 2 /\ Len(feasible) = 1

\* C8: BestWindows returns InvalidInput, with no recommendations, exactly when the
\* slot list is empty or runMinutes <= 0.
C8_InvalidInput ==
    pc = "BestWindows" =>
        /\ (err = ErrInvalidInput) <=> (Len(slots) = 0 \/ runMinutes <= 0)
        /\ err = ErrInvalidInput => recs = <<>>

\* an empty slot list with a positive duration is refused as invalid
C8_Witness ==
    /\ pc = "BestWindows"
    /\ Len(slots) = 0 /\ runMinutes > 0 /\ topN = 0
    /\ err = ErrInvalidInput

\* C9: for valid input BestWindows returns NoFeasibleSlots exactly when fewer than
\* Required slots are feasible or no candidate run exists; otherwise it returns a
\* non-empty list and no error. It never returns an empty list without an error.
C9_NoFeasibleSlots ==
    (pc = "BestWindows" /\ Len(slots) > 0 /\ runMinutes > 0) =>
        /\ (err = ErrNoFeasibleSlots) <=> (Len(Feasible) < Required \/ CandidateRuns = {})
        /\ err # ErrNoFeasibleSlots => (err = ErrNil /\ Len(recs) > 0)
        /\ err = ErrNil => Len(recs) > 0
        /\ err # ErrNil => recs = <<>>

\* enough feasible slots, none of the runs contiguous: NoFeasibleSlots
C9_Witness ==
    /\ pc = "BestWindows"
    /\ Len(Feasible) >= Required /\ Required >= 2
    /\ Len(slots) > 0 /\ runMinutes > 0
    /\ err = ErrNoFeasibleSlots

\* the recommendation returned at position k is the candidate run w
Returned(w) == \E k \in 1..Len(recs) : recs[k].Start = w[1].Start

\* C19: BestWindows keeps candidates of equal score in insertion order, for any
\* number of candidate runs: among returned recommendations of equal Score the
\* earlier-starting comes first, no returned recommendation is preceded in the
\* candidate order by an unreturned run of the same score, and so the first
\* result is the earliest-starting run of minimum score.
C19_TiesKeepInsertionOrder ==
    Succeeded =>
        /\ \A i, j \in 1..Len(recs) :
              (i < j /\ recs[i].Score = recs[j].Score) => recs[i].Start < recs[j].Start
        /\ \A k \in 1..Len(recs) : \A w \in CandidateRuns :
              (RunScore(w) = recs[k].Score /\ w[1].Start < recs[k].Start) => Returned(w)

\* the same within the reach of the insertion sort: at most 12 candidate runs
C19_TiesKeepInsertionOrderUpTo12 ==
    (Succeeded /\ Cardinality(CandidateRuns) <= 12) =>
        /\ \A i, j \in 1..Len(recs) :
              (i < j /\ recs[i].Score = recs[j].Score) => recs[i].Start < recs[j].Start
        /\ \A k \in 1..Len(recs) : \A w \in CandidateRuns :
              (RunScore(w) = recs[k].Score /\ w[1].Start < recs[k].Start) => Returned(w)

\* the number of recommendations asked for
Wanted == IF topN > 0 THEN topN ELSE 3

\* C20: BestWindows returns min(N, number of candidate runs) recommendations,
\* N being topN if topN > 0 and 3 otherwise, and they are the lowest-scoring
\* candidate runs: no run left out scores strictly lower than a returned one.
C20_TopNLowest ==
    Succeeded =>
        /\ Len(recs) = IF Wanted < Cardinality(CandidateRuns)
                       THEN Wanted ELSE Cardinality(CandidateRuns)
        /\ \A k \in 1..Len(recs) : \E w \in CandidateRuns :
              recs[k].Start = w[1].Start /\ recs[k].Score = RunScore(w)
        /\ \A i, j \in 1..Len(recs) : i # j => recs[i].Start # recs[j].Start
        /\ \A w \in CandidateRuns : ~Returned(w) =>
              \A k \in 1..Len(recs) : RunScore(w) >= recs[k].Score

\* topN = -1 and four candidate runs: three are returned, and the one left out
\* scores strictly more than each of them although it starts first
C20_Witness ==
    /\ Succeeded
    /\ topN < 0
    /\ Cardinality(CandidateRuns) = 4 /\ Len(recs) = 3
    /\ \E w \in CandidateRuns :
          /\ ~Returned(w)
          /\ \A k \in 1..Len(recs) : RunScore(w) > recs[k].Score /\ w[1].Start < recs[k].Start

----------------------------------------------------------------------------
(* The coupled recommendation *)

CoupledCall ==
    pc = "smart" /\ appliance.Class = ClassCoupled /\ coupledAppliance # Nil

Options == IF smartRec = Nil THEN <<>> ELSE smartRec[1].Options

\* the day offsets the day loop visits
ExaminedOffsets ==
    LET d == IF appliance.CanWaitDays = 0 THEN 1 ELSE appliance.CanWaitDays
    IN  {k \in 0..2 : k < d}

HasPrices(k) == (DayOf(now) + k) \in DOMAIN pricesByDay

\* the primary windows BestWindows can return for the day at offset k
PrimaryWindows(k) ==
    {r.recs[1] : r \in {x \in BestWindows(pricesByDay[DayOf(now) + k], appliance.CycleMinutes,
                                          constraints, opts, 1) : x.err = ErrNil}}

SunnyForecast(k) ==
    /\ (DayOf(now) + k) \in DOMAIN weatherByDay
    /\ weatherByDay[DayOf(now) + k].IsSunny

LineDryOptions(k) ==
    {i \in 1..Len(Options) :
        Options[i].UsesNaturalDry /\ Options[i].Date = now + k * 24 * 60}

\* C10: in the coupled recommendation, for each examined day with price data and
\* a feasible primary window, a line-dry option is produced iff the day has a
\* forecast, the forecast is sunny and the paired appliance is weather_dependent;
\* that option has UsesNaturalDry, no coupled slot, and the primary slot's cost as
\* its total cost. With canWaitDays = 3 and a sunny day 2 it exists for day 2.
C10_LineDryOption ==
    CoupledCall =>
        /\ \A k \in ExaminedOffsets :
              (HasPrices(k) /\ PrimaryWindows(k) # {}) =>
                  /\ (LineDryOptions(k) # {}) <=>
                        (SunnyForecast(k)
                            /\ coupledAppliance[1].Class = ClassWeatherDependent)
                  /\ Cardinality(LineDryOptions(k)) <= 1
                  /\ \A i \in LineDryOptions(k) :
                        /\ Options[i].CoupledSlot = Nil
                        /\ Options[i].PrimarySlot \in PrimaryWindows(k)
                        /\ Options[i].TotalCostGBP = Options[i].PrimarySlot.CostGBP
        /\ \A i \in 1..Len(Options) :
              Options[i].UsesNaturalDry =>
                  \E k \in ExaminedOffsets :
                      i \in LineDryOptions(k) /\ HasPrices(k) /\ PrimaryWindows(k) # {}

\* canWaitDays = 3 with a weather_dependent dryer: day 2 is sunny and gets a
\* line-dry option costing its primary slot alone, today is not sunny and gets none
C10_Witness ==
    /\ CoupledCall
    /\ appliance.CanWaitDays = 3
    /\ SunnyForecast(2) /\ ~SunnyForecast(0)
    /\ HasPrices(0) /\ PrimaryWindows(0) # {} /\ LineDryOptions(0) = {}
    /\ \E i \in LineDryOptions(2) :
          /\ Options[i].TotalCostGBP = Options[i].PrimarySlot.CostGBP
          /\ Options[i].TotalCostGBP > 0
          /\ Options[i].CoupledSlot = Nil

----------------------------------------------------------------------------
(* The returned SmartRecommendation *)

SmartSucceeded == pc = "smart" /\ smartErr = ErrNil /\ smartRec # Nil

BestOption == Options[smartRec[1].BestOptionIndex + 1]

\* C11: in every SmartRecommendation returned, BestOptionIndex is a valid index,
\* no option (tumble or line dry, any day) has a lower total cost than the option
\* at that index, and every option before it has a strictly greater total cost.
C11_BestOptionIsFirstCheapest ==
    SmartSucceeded =>
        /\ smartRec[1].BestOptionIndex \in 0..(Len(Options) - 1)
        /\ \A j \in 1..Len(Options) : BestOption.TotalCostGBP <= Options[j].TotalCostGBP
        /\ \A j \in 1..smartRec[1].BestOptionIndex :
              Options[j].TotalCostGBP > BestOption.TotalCostGBP

\* the best option is not the first one, a later option ties with it, and an
\* earlier one costs more
C11_Witness ==
    /\ SmartSucceeded
    /\ smartRec[1].BestOptionIndex > 0
    /\ \E j \in (smartRec[1].BestOptionIndex + 2)..Len(Options) :
          Options[j].TotalCostGBP = BestOption.TotalCostGBP
    /\ Options[1].TotalCostGBP > BestOption.TotalCostGBP

\* C14: GenerateSmartRecommendations returns the unsupported-class error, and no
\* result, exactly when the class is neither standalone nor coupled with a paired
\* appliance given; a standalone appliance takes the single-day path whether or
\* not a paired appliance is given.
C14_UnsupportedClass ==
    pc = "smart" =>
        /\ (smartErr = ErrUnsupported) <=>
              ~(\/ appliance.Class = "standalone"
                \/ (appliance.Class = "coupled" /\ coupledAppliance # Nil))
        /\ smartErr = ErrUnsupported => smartRec = Nil
        /\ appliance.Class = "standalone" =>
              /\ smartErr \in {ErrNil, ErrNoSlotsFound}
              /\ smartErr = ErrNil =>
                    /\ Len(Options) = 1
                    /\ Options[1].Day = "Today" /\ Options[1].CoupledSlot = Nil

\* a coupled appliance without its paired appliance is refused although today has
\* prices it could be planned on
C14_Witness ==
    /\ pc = "smart"
    /\ appliance.Class = "coupled" /\ coupledAppliance = Nil
    /\ HasPrices(0) /\ PrimaryWindows(0) # {}
    /\ smartErr = ErrUnsupported /\ smartRec = Nil

\* no examined day has both price data and a feasible primary window
NoDayPlannable == \A k \in ExaminedOffsets : ~HasPrices(k) \/ PrimaryWindows(k) = {}

\* C15: GenerateSmartRecommendations never succeeds with an empty Options list:
\* the coupled path fails with the no-options error exactly when no examined day
\* has price data and a feasible primary window, and on every success Options is
\* non-empty and BestOptionIndex is within it.
C15_NeverEmptyOptions ==
    /\ pc = "smart" =>
          /\ smartRec # Nil <=> smartErr = ErrNil
          /\ smartRec # Nil =>
                /\ Len(Options) > 0
                /\ 0 <= smartRec[1].BestOptionIndex
                /\ smartRec[1].BestOptionIndex < Len(Options)
    /\ CoupledCall =>
          /\ (smartErr = ErrNoOptionsFound) <=> NoDayPlannable
          /\ smartErr \in {ErrNil, ErrNoOptionsFound}

\* two days examined, today's prices allow no window, tomorrow has no prices, the
\* day after has prices but is not examined: no options
C15_Witness ==
    /\ CoupledCall
    /\ appliance.CanWaitDays = 2
    /\ HasPrices(0) /\ PrimaryWindows(0) = {}
    /\ ~HasPrices(1)
    /\ HasPrices(2) /\ PrimaryWindows(2) # {}
    /\ smartErr = ErrNoOptionsFound /\ smartRec = Nil

StandaloneCall == pc = "smart" /\ appliance.Class = "standalone"

\* the windows the search with topN = 1 can return on today's price slots
TodayWindows == IF HasPrices(0) THEN PrimaryWindows(0) ELSE {}

\* C16: for a standalone appliance, success returns exactly one option, labelled
\* Today, whose primary slot is the best window over the slots stored under
\* today's date, whose total cost is that window's cost, with BestOptionIndex 0;
\* the call fails when today has no price entry or the search fails, whatever
\* the other days hold.
C16_StandaloneToday ==
    StandaloneCall =>
        /\ TodayWindows = {} => (smartErr # ErrNil /\ smartRec = Nil)
        /\ TodayWindows # {} =>
              /\ smartErr = ErrNil /\ smartRec # Nil
              /\ Len(Options) = 1
              /\ Options[1].Day = "Today"
              /\ Options[1].PrimarySlot \in TodayWindows
              /\ Options[1].TotalCostGBP = Options[1].PrimarySlot.CostGBP
              /\ ~Options[1].UsesNaturalDry
              /\ smartRec[1].BestOptionIndex = 0

\* a standalone appliance given a paired appliance is planned on today's slots at
\* 2p although tomorrow's slot is cheaper
C16_Witness ==
    /\ StandaloneCall
    /\ coupledAppliance # Nil
    /\ smartErr = ErrNil
    /\ Options[1].TotalCostGBP = (2 * opts.EstKWh * FixedPoint) \div 100
    /\ HasPrices(1) /\ pricesByDay[DayOf(now) + 1][1].PencePerKWh = 1

----------------------------------------------------------------------------
(* The practical adapter and the usage-frequency gate *)

C13_PracticalConstraints ==
    [][pc' = "practical" =>
        /\ appliance.ControlType = "manual" =>
              constraints'.Allowed =
                  IF household.AvailableHours # <<>> THEN household.AvailableHours
                  ELSE <<[Start |-> <<7, 0>>, End |-> <<23, 30>>,
                          DaysOfWeek |-> <<1, 2, 3, 4, 5, 6, 7>>]>>
        /\ appliance.ControlType = "smart" => constraints' = constraints
        /\ appliance.ControlType \in {"manual", "smart"} =>
              /\ constraints'.Blocked = constraints.Blocked
              /\ constraints'.QuietHours = constraints.QuietHours
              /\ constraints'.FinishBy = constraints.FinishBy
              /\ constraints'.StartBy = constraints.StartBy
              /\ constraints'.PriceCapPence = constraints.PriceCapPence
              /\ constraints'.NoiseLevel = constraints.NoiseLevel]_vars

\* a manual appliance with allowed windows of its own, in a household without
\* available hours: Allowed is now the default window, the rest is as it was built
C13_Witness ==
    /\ pc = "practical"
    /\ appliance.ControlType = "manual"
    /\ appliance.AllowedWindows # <<>>
    /\ household.AvailableHours = <<>>
    /\ constraints.Allowed # appliance.AllowedWindows
    /\ Len(constraints.Allowed) = 1 /\ constraints.Allowed[1].End = <<23, 30>>
    /\ constraints.Blocked # <<>> /\ constraints.QuietHours # <<>>
    /\ constraints.PriceCapPence # Nil /\ constraints.StartBy # Nil

----------------------------------------------------------------------------
(* Planning a batch of appliances *)

\* what the running planner's loop body returns for appliance i planned on its
\* own, with no results before it
AloneOutcomes(i) ==
    CASE caller = "plan" -> planBody(appliances[i], household, slots, <<>>)
      [] caller = "recommendations" ->
            recommendationsBody(appliances[i], household, slots, now, <<>>)
      [] caller = "smart-recommendations" ->
            smartRecommendationsBody(appliances[i], appliances, household, pricesByDay,
                                     weatherByDay, now, <<>>)

\* the appliances that are returned when planned on their own
PlannedAlone == {i \in 1..Len(appliances) : \E out \in AloneOutcomes(i) : out.results # <<>>}

ResultName(r) == IF caller = "smart-recommendations" THEN r.ApplianceName ELSE r.Appliance

\* the engine call made for appliance i fails
EngineError(i) ==
    /\ appliances[i].Enabled
    /\ \/ /\ caller = "plan"
          /\ \E r \in BestWindows(slots, appliances[i].CycleMinutes,
                                  constraintsOf(appliances[i], household),
                                  optsOf(appliances[i], household), 3) : r.err # ErrNil
       \/ /\ caller = "smart-recommendations"
          /\ appliances[i].Class = "coupled"
          /\ \E r \in GenerateSmartRecommendations(
                         appliances[i], findCoupled(appliances[i], appliances), pricesByDay,
                         weatherByDay, constraintsOf(appliances[i], household),
                         optsOf(appliances[i], household), now) : r.err # ErrNil
       \/ /\ caller = "recommendations"
          /\ appliances[i].UsageFrequency = "daily"
          /\ i \notin PlannedAlone

\* C17: in a batch (plan, /recommendations, /smart-recommendations) an engine
\* error for one appliance only leaves that appliance out: at every point of the
\* loop the results are, in order, exactly the appliances gone through that are
\* returned when planned on their own, and the batch ends well.
C17_ErrorsSkipOneAppliance ==
    /\ pc \in {"loop", "done"} =>
          /\ Len(results) = Cardinality({i \in PlannedAlone : i <= cursor})
          /\ [k \in 1..Len(results) |-> ResultName(results[k])]
                = pick([i \in 1..Len(appliances) |-> appliances[i].Name],
                       {i \in PlannedAlone : i <= cursor})
    /\ pc = "done" => (status = "ok" /\ cursor = Len(appliances))

\* the batch is over; an appliance whose engine call failed stands between two
\* that are returned
C17_Witness ==
    /\ pc = "done" /\ status = "ok"
    /\ \E i, j, k \in 1..Len(appliances) :
          /\ i < j /\ j < k
          /\ EngineError(j) /\ j \notin PlannedAlone
          /\ \E m \in 1..(Len(results) - 1) :
                /\ ResultName(results[m]) = appliances[i].Name
                /\ ResultName(results[m + 1]) = appliances[k].Name

----------------------------------------------------------------------------
(* Purity of the engine operations *)

\* what the first of the two calls returned
FirstResult(op) ==
    CASE op = "BestWindows" -> [recs |-> recs, err |-> err]
      [] op = "filterByConstraints" -> feasible
      [] op = "ShouldShowRecommendation" -> show
      [] op = "GenerateSmartRecommendations" -> [rec |-> smartRec, err |-> smartErr]

\* C18: every engine operation (filterByConstraints, BestWindows,
\* ShouldShowRecommendation, GenerateSmartRecommendations) is a function of its
\* arguments alone: a second call with the same arguments returns what the first
\* returned, whenever it is made.
C18_SameArgumentsSameResult ==
    pc = "twice" => again[1].value = FirstResult(again[1].op)

\* the same, for the three operations that do not read the clock
C18_ClockFreeOperations ==
    (pc = "twice" /\ again[1].op # "GenerateSmartRecommendations")
        => again[1].value = FirstResult(again[1].op)

----------------------------------------------------------------------------
(* The cost and the reason of a recommendation *)

\* the energy one slot of a run is charged for: EstKWh / requiredSlots
Share == (opts.EstKWh * FixedPoint) \div Required

\* the candidate run a recommendation was built from
RunOf(rec) == CHOOSE w \in CandidateRuns : w[1].Start = rec.Start

\* C21: for every returned Recommendation, Score is the sum over the run's slots
\* of price * (EstKWh / requiredSlots), requiredSlots being ceil(runMinutes/30),
\* and CostGBP is Score / 100; the per-slot shares add up to EstKWh, and neither
\* CarbonWeight nor PVWeight enters the cost.
C21_ScoreAndCost ==
    Succeeded =>
        /\ Required * 30 >= runMinutes /\ (Required - 1) * 30 < runMinutes
        /\ Required * Share = opts.EstKWh * FixedPoint
        /\ \A k \in 1..Len(recs) :
              /\ \E w \in CandidateRuns : w[1].Start = recs[k].Start
              /\ Len(RunOf(recs[k])) = Required
              /\ recs[k].Score = SumPrices(RunOf(recs[k])) * Share
              /\ recs[k].CostGBP * 100 = recs[k].Score

\* a 45-minute run of 2 kWh over slots of 1p and 2p, with a carbon weight set:
\* each slot is charged 1 kWh, the score is 3p and the cost 0.03
C21_Witness ==
    /\ Succeeded
    /\ runMinutes = 45 /\ opts.EstKWh = 2 /\ opts.CarbonWeight = 1
    /\ \E i, j \in 1..2 : RunOf(recs[1])[i].PencePerKWh # RunOf(recs[1])[j].PencePerKWh
    /\ recs[1].Score = 3 * FixedPoint
    /\ recs[1].CostGBP * 100 = 3 * FixedPoint

\* the arithmetic mean of the prices of a run's slots
MeanPrice(w) == (SumPrices(w) * FixedPoint) \div Len(w)

\* the smallest index i (from 0) with m <= P[i], P the ascending prices of the
\* whole input: the number of input slots priced strictly below m
IndexOf(m) == Cardinality({i \in 1..Len(slots) : slots[i].PencePerKWh * FixedPoint < m})

\* the label of the percentile i / n
LabelOf(i, n) ==
    IF i * 10 < 2 * n THEN "Excellent price"
    ELSE IF i * 10 < 4 * n THEN "Good price"
    ELSE IF i * 10 < 6 * n THEN "Moderate pricing"
    ELSE "Higher price"

\* C22: the Reason of each Recommendation comes from the run's mean slot price m:
\* percentile = i / len(P) for the smallest i with m <= P[i], P being the sorted
\* prices of the whole input, and the label is excellent below 0.2, good below
\* 0.4, moderate below 0.6 and higher price otherwise; so the label is the same
\* for every value of EstKWh.
C22_ReasonFromMeanPrice ==
    Succeeded =>
        \A k \in 1..Len(recs) :
            LET i == IndexOf(MeanPrice(RunOf(recs[k])))
            IN  /\ recs[k].Reason.idx = i
                /\ recs[k].Reason.of = Len(slots)
                /\ recs[k].Reason.band = LabelOf(i, Len(slots))

\* the same where the energy of the run is one unit per slot, EstKWh = requiredSlots
C22_ReasonFromMeanPriceUnitShare ==
    (Succeeded /\ opts.EstKWh = Required) =>
        \A k \in 1..Len(recs) :
            LET i == IndexOf(MeanPrice(RunOf(recs[k])))
            IN  /\ recs[k].Reason.idx = i
                /\ recs[k].Reason.of = Len(slots)
                /\ recs[k].Reason.band = LabelOf(i, Len(slots))

\* the value generateReason compares with the sorted prices: totalPence / len(window)
Compared(rec) == rec.Score \div Required

AboveEveryPrice(v) == \A i \in 1..Len(slots) : v > slots[i].PencePerKWh * FixedPoint

\* C23: in reason generation, when the value compared with the sorted prices
\* exceeds every price of the whole input, no index is found, the percentile is 0
\* and the Recommendation is labelled "Excellent price (bottom 0% of the day)".
C23_AboveEveryPriceIsExcellent ==
    Succeeded =>
        \A k \in 1..Len(recs) :
            AboveEveryPrice(Compared(recs[k])) =>
                /\ recs[k].Reason.band = "Excellent price"
                /\ recs[k].Reason.idx = 0

\* the dearest slot of the input, run with 2 kWh, is compared as twice its price
\* and labelled excellent, while a cheaper slot of the same input is not
C23_Witness ==
    /\ Succeeded
    /\ \E k, j \in 1..Len(recs) :
          /\ AboveEveryPrice(Compared(recs[k]))
          /\ recs[k].Reason.band = "Excellent price" /\ recs[k].Reason.idx = 0
          /\ recs[j].Score < recs[k].Score
          /\ recs[j].Reason.band # "Excellent price"

----------------------------------------------------------------------------
(* Membership of a timestamp in a TimeWindow *)

Parses(x) == Len(x) = 2 /\ x[1] \in 0..23 /\ x[2] \in 0..59

\* the weekday of t, Monday = 1 .. Sunday = 7 (minute 0 is a Monday 00:00)
WeekdayMon1(t) == ((t \div (24 * 60)) % 7) + 1

\* 00:00 of t's own calendar date
Midnight(t) == t - (t % (24 * 60))

----------------------------------------------------------------------------
(* Manual appliances and the hours someone is there to start them *)

\* the availability window of the household: its available hours, or 07:00-23:30
Available ==
    IF household.AvailableHours # <<>> THEN household.AvailableHours
    ELSE <<[Start |-> <<7, 0>>, End |-> <<23, 30>>, DaysOfWeek |-> <<1, 2, 3, 4, 5, 6, 7>>]>>

PlannedManual ==
    pc = "BestWindows" /\ appliance.ControlType = "manual" /\ constraints.Allowed = Available

\* the time-contiguous runs of the required length in the price feed
FeedRuns ==
    {w \in {SubSeq(slots, i, i + Required - 1) : i \in 1..(Len(slots) - Required + 1)} :
        TimeContiguous(w)}

\* C25: for a manual appliance the availability window restricts only the start
\* of a run: every time-contiguous run of the required length whose first slot
\* starts inside the window is a candidate of BestWindows, also when later slots
\* of the run start outside it (a 2-hour run starting at 23:00), so the appliance
\* can finish after 23:30. (topN is the number of slots: every candidate is returned.)
C25_AvailabilityLimitsStartOnly ==
    PlannedManual =>
        \A w \in FeedRuns :
            isInTimeWindows(w[1].Start, Available) => (err = ErrNil /\ Returned(w))

\* what holds instead: every slot of a returned run starts inside the window, so
\* no run ends after the window does
C25_EverySlotStartsInside ==
    PlannedManual =>
        /\ \A k \in 1..Len(recs) : \A sl \in SlotsUnder(recs[k]) :
              isInTimeWindows(sl.Start, Available)
        /\ household.AvailableHours = <<>> =>
              \A k \in 1..Len(recs) : recs[k].End <= At(6, 23, 30)

----------------------------------------------------------------------------
(* The days the coupled recommendation looks at *)

Max(a, b) == IF a > b THEN a ELSE b
Min(a, b) == IF a < b THEN a ELSE b

\* the day offsets 0 .. min(max(canWaitDays, 1), 3) - 1
ClaimedOffsets == 0..(Min(Max(appliance.CanWaitDays, 1), 3) - 1)

\* the options of the day at offset k
OptionsOfDay(k) == {i \in 1..Len(Options) : Options[i].Date = now + k * 24 * 60}

\* a day is examined iff it gets an option whenever it has prices and a window
ExaminedDaysAre(offsets) ==
    /\ \A k \in offsets :
          (HasPrices(k) /\ PrimaryWindows(k) # {}) => OptionsOfDay(k) # {}
    /\ \A i \in 1..Len(Options) : \E k \in offsets : i \in OptionsOfDay(k)
    /\ \A k \in offsets : Cardinality(OptionsOfDay(k)) <= 2

\* C26: for a coupled appliance and any integer canWaitDays the day offsets
\* examined are exactly 0 .. min(max(canWaitDays, 1), 3) - 1: today is always
\* examined (canWaitDays <= 0 behaves as 1), never more than 3 days, every option
\* belongs to offset 0, 1 or 2 and a day gets at most 2 options.
C26_ExaminedDays ==
    CoupledCall =>
        /\ ExaminedDaysAre(ClaimedOffsets)
        /\ ClaimedOffsets \subseteq 0..2 /\ 0 \in ClaimedOffsets

\* the same for canWaitDays >= 0
C26_ExaminedDaysNotNegative ==
    (CoupledCall /\ appliance.CanWaitDays >= 0) =>
        /\ ExaminedDaysAre(ClaimedOffsets)
        /\ ClaimedOffsets \subseteq 0..2 /\ 0 \in ClaimedOffsets

----------------------------------------------------------------------------
(* The tumble-dry option *)

TumbleOptions(k) == {i \in OptionsOfDay(k) : ~Options[i].UsesNaturalDry}

\* the price slots of the day at offset k whose start lies in [start, end)
CoveredSlots(k, start, end) ==
    {sl \in Range(pricesByDay[DayOf(now) + k]) : start <= sl.Start /\ sl.Start < end}

RECURSIVE SumOfPrices(_)
SumOfPrices(S) ==
    IF S = {} THEN 0
    ELSE LET sl == CHOOSE x \in S : TRUE
         IN  sl.PencePerKWh + SumOfPrices(S \ {sl})

\* the paired appliance's EstKWh split evenly over the covered slots, each share
\* weighted by its slot's price, in pounds
SuccessorCost(k, start, end) ==
    LET covered == CoveredSlots(k, start, end)
    IN  IF covered = {} THEN 0
        ELSE (SumOfPrices(covered)
                * ((coupledAppliance[1].EstKWh * FixedPoint) \div Cardinality(covered)))
             \div 100

\* C27: in the coupled recommendation every examined day with price data and a
\* feasible primary window gets a tumble-dry option; in it UsesNaturalDry is
\* false, CoupledSlot starts exactly at PrimarySlot.End and lasts the paired
\* appliance's cycleMinutes, TotalCost = PrimarySlot.Cost + CoupledSlot.Cost, and
\* the successor cost is the paired appliance's EstKWh split evenly over the
\* day's price slots starting in [CoupledSlot.Start, CoupledSlot.End), each share
\* weighted by its slot's price, divided by 100.
C27_TumbleDryOption ==
    CoupledCall =>
        \A k \in ExaminedOffsets :
            /\ (HasPrices(k) /\ PrimaryWindows(k) # {}) => Cardinality(TumbleOptions(k)) = 1
            /\ \A i \in TumbleOptions(k) :
                  LET o == Options[i]
                  IN  /\ o.PrimarySlot \in PrimaryWindows(k)
                      /\ o.CoupledSlot # Nil
                      /\ o.CoupledSlot[1].Start = o.PrimarySlot.End
                      /\ o.CoupledSlot[1].End
                            = o.CoupledSlot[1].Start + coupledAppliance[1].CycleMinutes
                      /\ o.CoupledSlot[1].CostGBP
                            = SuccessorCost(k, o.CoupledSlot[1].Start, o.CoupledSlot[1].End)
                      /\ o.TotalCostGBP = o.PrimarySlot.CostGBP + o.CoupledSlot[1].CostGBP

\* a 2 kWh dryer run over two slots of different price, 1 kWh charged at each:
\* 3p in all, after a wash of 1p
C27_Witness ==
    /\ CoupledCall
    /\ coupledAppliance[1].EstKWh = 2
    /\ \E i \in TumbleOptions(0) :
          LET o == Options[i]
              covered == CoveredSlots(0, o.CoupledSlot[1].Start, o.CoupledSlot[1].End)
          IN  /\ Cardinality(covered) = 2
              /\ \E x, y \in covered : x.PencePerKWh # y.PencePerKWh
              /\ o.CoupledSlot[1].CostGBP * 100 = 3 * FixedPoint
              /\ o.TotalCostGBP * 100 = 4 * FixedPoint

----------------------------------------------------------------------------
(* Savings against running today *)

CoupledSucceeded == CoupledCall /\ smartErr = ErrNil /\ smartRec # Nil

\* every option after the first carries the first option's cost less its own
SavingsAgainstFirst ==
    /\ Options[1].SavingsVsToday = 0
    /\ \A k \in 2..Len(Options) :
          Options[k].SavingsVsToday = Options[1].TotalCostGBP - Options[k].TotalCostGBP

\* C28: in a coupled SmartRecommendation Options[0] has savings 0 and every later
\* option k has SavingsVsToday = Options[0].TotalCost - Options[k].TotalCost
\* (negative if option k costs more); the baseline, Options[0], is the option for
\* running today.
C28_SavingsVsToday ==
    CoupledSucceeded =>
        /\ SavingsAgainstFirst
        /\ Options[1].Day = "Today" /\ Options[1].Date = now

\* the same without the baseline being today's option
C28_SavingsVsFirstOption ==
    CoupledSucceeded => SavingsAgainstFirst

----------------------------------------------------------------------------
(* The response of /smart-recommendations *)

SmartResponse == pc \in {"loop", "done"} /\ caller = "smart-recommendations"

\* the options of a returned recommendation are there, all of them in the
\* future, and BestOptionIndex is the index of one of them
FutureOptionsIndexed(r) ==
    /\ Len(r.Options) > 0
    /\ \A j \in 1..Len(r.Options) : r.Options[j].PrimarySlot.Start > now
    /\ r.BestOptionIndex \in 0..(Len(r.Options) - 1)

\* C29: in the smart-recommendations handler, once the options whose primary slot
\* does not start in the future are removed, every SmartRecommendation of the
\* response has a non-empty Options list of future options only and a
\* BestOptionIndex that is a valid index of the filtered list and points to an
\* option of minimal TotalCost among those that remain.
C29_BestOfFutureOptions ==
    SmartResponse =>
        \A m \in 1..Len(results) :
            /\ FutureOptionsIndexed(results[m])
            /\ \A j \in 1..Len(results[m].Options) :
                  results[m].Options[results[m].BestOptionIndex + 1].TotalCostGBP
                      <= results[m].Options[j].TotalCostGBP

\* the same without the option at BestOptionIndex being the cheapest
C29_FutureOptionsValidIndex ==
    SmartResponse => \A m \in 1..Len(results) : FutureOptionsIndexed(results[m])

----------------------------------------------------------------------------
(* Tumble drying against line drying *)

\* the day at offset k has both options, prices above zero and a dryer that
\* uses energy
BothOptions(k) ==
    /\ TumbleOptions(k) # {} /\ LineDryOptions(k) # {}
    /\ \A sl \in Range(pricesByDay[DayOf(now) + k]) : sl.PencePerKWh > 0
    /\ coupledAppliance[1].EstKWh > 0

TumbleCostsMore(k) ==
    \A i \in TumbleOptions(k) : \A j \in LineDryOptions(k) :
        /\ Options[i].CoupledSlot[1].CostGBP > 0
        /\ Options[i].TotalCostGBP > Options[j].TotalCostGBP

\* C30: for every day with both a tumble-dry and a line-dry option, if all the
\* day's prices are strictly positive and the paired appliance's EstKWh > 0, the
\* tumble-dry option's successor cost is strictly positive and its TotalCost is
\* strictly greater than the line-dry option's, wherever in the day the primary
\* window ends, also when the successor run extends past the day's last slot.
C30_TumbleDryCostsMore ==
    CoupledCall =>
        \A k \in ExaminedOffsets : BothOptions(k) => TumbleCostsMore(k)

\* the same where the successor run covers at least one of the day's slots
C30_TumbleDryCostsMoreOnCoveredSlots ==
    CoupledCall =>
        \A k \in ExaminedOffsets :
            (/\ BothOptions(k)
             /\ \A i \in TumbleOptions(k) :
                   CoveredSlots(k, Options[i].CoupledSlot[1].Start,
                                Options[i].CoupledSlot[1].End) # {})
            => TumbleCostsMore(k)

====
